---- MODULE Spec2Model ----
(***************************************************************************)
(* scrapy-puppeteer: the downloader-middleware pipeline that turns         *)
(* PuppeteerRequests into calls to the browser service, and the two        *)
(* interceptors layered on it (context restore, recaptcha), together with  *)
(* the registry of used browser contexts that is flushed at spider_idle.   *)
(*                                                                         *)
(* The crawl engine is the environment: a request returned by a            *)
(* process_request / process_response handler is rescheduled and runs the  *)
(* whole chain again; a response returned by the last process_response is  *)
(* handed to the spider; an exception raised in a handler reaches the      *)
(* request's errback.  The spider works on one page sequence at a time.    *)
(***************************************************************************)
EXTENDS Integers, Sequences, FiniteSets, TLC

\* ------------------------------------------------------------------ bounds
MaxSteps == 3            \* requests the spider issues in one crawl
MaxCaptchaSteps == 2     \* the same, when the recaptcha middleware is enabled
MaxIds == 3              \* context / page ids the backend may allocate
RESTORING_LENGTH == 1    \* setting RESTORING_LENGTH (L)
N_RETRY_RESTORING == 1   \* setting N_RETRY_RESTORING (R)

\* --------------------------------------------------------------- constants
None == 0                \* Python None for ids; real ids are 1, 2, ...
Absent == -1             \* a meta key that is not in the dict
HTTP_OK == 200
UNPROCESSABLE_ENTITY == 422

\* ----------------------------------------------------------------- actions
\* An atomic browser action is [kind, tag]; tag tells two actions of one kind
\* apart (it stands for the action's parameters).  A Compose has kind
\* "compose" and carries the flattened list of atomic actions.
Atom(kind, tag) ==
    [kind |-> kind, tag |-> tag, actions |-> <<>>,
     solve_recaptcha |-> FALSE, close_on_empty |-> FALSE]

\* RecaptchaSolver(solve_recaptcha, close_on_empty)
RecaptchaSolver(solve_recaptcha, close_on_empty) ==
    [Atom("recaptcha_solver", 0) EXCEPT !.solve_recaptcha = solve_recaptcha,
                                        !.close_on_empty = close_on_empty]

\* __flatten that appends every argument as it is
Flatten_Shallow(args) == args

\* Compose.__flatten
RECURSIVE Flatten(_)
Flatten(args) ==
    IF args = <<>> THEN <<>>
    ELSE LET a == Head(args)
         IN (IF a.kind = "compose" THEN a.actions ELSE <<a>>) \o Flatten(Tail(args))

\* Compose(*actions); the constructor raises ValueError on an empty list,
\* which the callers below never pass.
Compose(args) == [Atom("compose", 0) EXCEPT !.actions = Flatten(args)]

\* ---------------------------------------------------------------- requests
NoMeta ==
    [recover_context |-> FALSE, request_binding |-> FALSE,
     dont_recaptcha |-> FALSE, captcha_solving |-> FALSE,
     captcha_submission |-> FALSE]

\* oid is the identity of the Python object (requests hash by identity).
PuppeteerRequest(oid, action, context_id, page_id, close_page, meta) ==
    [cls |-> "PuppeteerRequest", oid |-> oid, action |-> action,
     context_id |-> context_id, page_id |-> page_id,
     close_page |-> close_page, meta |-> meta]

\* service_params is the query string of the ActionRequest's URL.
ActionRequest(action, puppeteer_request, binding_count, service_params) ==
    [cls |-> "ActionRequest", action |-> action,
     puppeteer_request |-> puppeteer_request,
     binding_count |-> binding_count,
     service_params |-> service_params]

\* --------------------------------------------------------------- responses
\* What the browser service sends back: status, whether the body is JSON,
\* and the contextId / pageId found in the body (None when the key is missing).
\* captchas: whether a recaptcha_solver reply lists a captcha; body: which
\* page content the reply holds.
RawResponse(status, json, contextId, pageId, captchas, body) ==
    [cls |-> "TextResponse", status |-> status, json |-> json,
     contextId |-> contextId, pageId |-> pageId,
     captchas |-> captchas, body |-> body]

PuppeteerResponseClasses ==
    {"PuppeteerHtmlResponse", "PuppeteerScreenshotResponse", "PuppeteerHarResponse",
     "PuppeteerRecaptchaSolverResponse", "PuppeteerJsonResponse"}

IsPuppeteerResponse(response) == response.cls \in PuppeteerResponseClasses

\* _get_response_class that takes Scroll for an action without a page body
_get_response_class_ScrollJson(request_action) ==
    CASE request_action.kind \in {"goto", "forward", "back", "click", "fill_form"}
            -> "PuppeteerHtmlResponse"
      [] request_action.kind = "screenshot" -> "PuppeteerScreenshotResponse"
      [] request_action.kind = "har" -> "PuppeteerHarResponse"
      [] request_action.kind = "recaptcha_solver" -> "PuppeteerRecaptchaSolverResponse"
      [] OTHER -> "PuppeteerJsonResponse"

\* ServiceBrowserManager._get_response_class
_get_response_class(request_action) ==
    CASE request_action.kind \in {"goto", "forward", "back", "click", "scroll", "fill_form"}
            -> "PuppeteerHtmlResponse"
      [] request_action.kind = "screenshot" -> "PuppeteerScreenshotResponse"
      [] request_action.kind = "har" -> "PuppeteerHarResponse"
      [] request_action.kind = "recaptcha_solver" -> "PuppeteerRecaptchaSolverResponse"
      [] OTHER -> "PuppeteerJsonResponse"

\* ServiceBrowserManager._form_response: the typed response
_form_response(response_cls, response, request) ==
    LET puppeteer_request == request.puppeteer_request
    IN [cls |-> response_cls, status |-> HTTP_OK,
        context_id |-> IF response.contextId # None THEN response.contextId
                       ELSE puppeteer_request.context_id,
        page_id |-> IF response.pageId # None THEN response.pageId
                    ELSE puppeteer_request.page_id,
        puppeteer_request |-> puppeteer_request,
        captchas |-> response.captchas,
        body |-> response.body]

\* follow that reuses the page although the request asked to close it
Follow_KeepsPage(oid, response, action, close_page, meta) ==
    PuppeteerRequest(oid, action, response.context_id, response.page_id,
                     close_page, meta)

\* PuppeteerResponse.follow
Follow(oid, response, action, close_page, meta) ==
    PuppeteerRequest(oid, action,
                     response.context_id,
                     IF response.puppeteer_request.close_page THEN None
                     ELSE response.page_id,
                     close_page, meta)

\* ------------------------------------------------------------------- state
VARIABLES
    middlewares,       \* interceptors enabled in DOWNLOADER_MIDDLEWARES
    settings,          \* RECAPTCHA_SOLVING, RECAPTCHA_SUBMIT_SELECTORS
    pc,                \* "idle" | "scheduled" | "downloading"
    request,           \* the request that is scheduled or being downloaded
    last,              \* what the spider's callback / errback received last
    delivered,         \* deliveries to the spider for its current request
    steps,             \* requests issued by the spider so far
    nobj,              \* request objects created so far
    nextCtx, nextPage, \* ids allocated by the browser service so far
    context_actions,   \* restore middleware: context id -> Compose
    used_contexts,     \* ServiceBrowserManager.used_contexts[id(spider)]
    mw_used_contexts,  \* PuppeteerServiceDownloaderMiddleware.used_contexts[id(spider)]
    close_requests,    \* CloseContextRequests being downloaded (context lists)
    crawl,             \* "running" | "closed"
    page_responses,    \* recaptcha middleware: page id -> stored response
    page_closing,      \* recaptcha middleware: requests whose close is deferred
    session,           \* history of the current page sequence, for the properties
    audit,             \* history of the registry and its flushes, for the properties
    goto_objects,      \* the GoTo objects a callback holds: their url attribute
    responses,         \* the PuppeteerResponse objects a callback follows
    generator,         \* the follow_all generator the callback iterates
    yielded,           \* what the last follow / follow_all call produced so far
    calls,             \* follow / follow_all calls made so far
    executed,          \* the last action a browser manager executed, and its outcome
    driver,            \* a local browser manager: its ContextManager, its last request
    encoded,           \* a request for the service and the body serialised for it
    built,             \* the Compose objects a callback has constructed
    waited             \* the wait a local driver's action made after acting

pipeline == <<middlewares, settings, pc, request, last, delivered, steps, nobj, nextCtx,
              nextPage, context_actions, used_contexts, mw_used_contexts, close_requests,
              crawl, page_responses, page_closing, session, audit>>

library == <<goto_objects, responses, generator, yielded, calls, executed, driver,
             encoded, built, waited>>

vars == <<pipeline, library>>

NoRequest == [cls |-> "NoRequest"]
NoDelivery == [cls |-> "NoDelivery"]
Failure(exc) == [cls |-> "Failure", exc |-> exc]

EmptyMap == [x \in {} |-> x]
MapPut(m, k, v) == [x \in DOMAIN m \cup {k} |-> IF x = k THEN v ELSE m[x]]
MapDel(m, k) == [x \in DOMAIN m \ {k} |-> m[x]]

\* Bookkeeping for the properties: the atomic actions of the current page
\* sequence that completed, oldest first; the replays the restore middleware
\* issued for it; what reached the backend for the spider's current request.
NoRestore == [oid |-> 0, context_id |-> None, history |-> <<>>]

NewSession ==
    [completed |-> <<>>,      \* actions of the sequence that succeeded, in issue order
     current |-> NoRequest,   \* the request the spider issued last, as issued
     followed |-> NoDelivery, \* the response that request follows
     replays |-> 0,           \* requests issued by _restore_context
     retries |-> 0,           \* re-issues of the bound first request
     boot422 |-> 0,           \* 422 replies to the bound first request
     sent |-> <<>>,           \* PuppeteerRequests sent to the service for current
     typed |-> NoDelivery,    \* the service's typed response to current itself
     errors |-> 0,            \* replies to them that were not 200
     captchas |-> FALSE,      \* a solve reply for current listed a captcha
     reply |-> NoDelivery,    \* the service's last reply, as it was downloaded
     exchanges |-> <<>>,      \* per answered request of the sequence: what was
                              \* sent and the response the spider got for it
     restored |-> NoRestore]  \* the replay made for current: its request, the
                              \* context it replaces, the history it replays

NewAudit ==
    [observed |-> {},         \* context ids seen in replies and not yet flushed
     flush_before |-> {},     \* the registry when the last idle handler ran
     flush_issued |-> <<>>,   \* the close requests that handler issued
     since_reply |-> 0,       \* close requests issued since the last reply
     deferred |-> FALSE,      \* the last idle handler raised DontCloseSpider
     closed |-> {},           \* context ids sent in a CloseContextRequest so far
     close_result |-> "none"] \* how the last close request's download ended

\* RECAPTCHA_SUBMIT_SELECTORS is a dict domain -> Click, walked in insertion
\* order.  An entry here is [matches, selector]: whether the domain occurs in
\* the URL of the pages of this crawl, and the Click's selector ("" = none).
SelectorTables ==
    {<<>>,
     <<[matches |-> TRUE, selector |-> "#submit"]>>,
     <<[matches |-> TRUE, selector |-> ""]>>,
     <<[matches |-> FALSE, selector |-> "#submit"]>>,
     <<[matches |-> FALSE, selector |-> "#other"], [matches |-> TRUE, selector |-> "#submit"]>>}

NoGenerator == [state |-> "none"]
NoExecution == [backend |-> "none"]
NoDriver == [backend |-> "none"]
NoEncoding == [action |-> "none"]
NotWaiting == [backend |-> "none"]
NothingBuilt == [objects |-> <<>>, raised |-> "none", args |-> <<>>]

\* No callback is following anything and no browser manager is under test.
InitLibrary ==
    /\ goto_objects = <<>>
    /\ responses = <<>>
    /\ generator = NoGenerator
    /\ yielded = <<>>
    /\ calls = 0
    /\ executed = NoExecution
    /\ driver = NoDriver
    /\ encoded = NoEncoding
    /\ built = NothingBuilt
    /\ waited = NotWaiting

\* The middlewares as their constructors leave them, nothing scheduled.
InitPipeline(mws, solving, tables) ==
    /\ middlewares = mws
    /\ settings \in [recaptcha_solving : solving, submit_selectors : tables]
    /\ pc = "idle"
    /\ request = NoRequest
    /\ last = NoDelivery
    /\ delivered = 0
    /\ steps = 0
    /\ nobj = 0
    /\ nextCtx = 0
    /\ nextPage = 0
    /\ context_actions = EmptyMap
    /\ used_contexts = {}
    /\ mw_used_contexts = {}
    /\ close_requests = <<>>
    /\ crawl = "running"
    /\ page_responses = EmptyMap
    /\ page_closing = {}
    /\ session = NewSession
    /\ audit = NewAudit

InitWith(mws, solving, tables) ==
    /\ InitPipeline(mws, solving, tables)
    /\ InitLibrary

\* ------------------------------------------------------- handler plumbing
\* The middleware objects' fields, threaded through the handlers of a chain.
Fields ==
    [context_actions |-> context_actions, used_contexts |-> used_contexts,
     mw_used_contexts |-> mw_used_contexts, page_responses |-> page_responses,
     page_closing |-> page_closing, nobj |-> nobj,
     recaptcha_solving |-> settings.recaptcha_solving,
     submit_selectors |-> settings.submit_selectors]

\* What a handler hands back to the engine: a response (or None, for
\* process_request: go on with the request as it now is), a new request,
\* or an exception.
Returns(kind, value, fields) == [kind |-> kind, value |-> value, fields |-> fields]

\* -------------------------------------------- PuppeteerServiceDownloaderMiddleware
\* _encode_service_params that never asks the service to close the page
_encode_service_params_NoClose(req) ==
    [contextId |-> IF req.context_id # None THEN req.context_id ELSE Absent,
     pageId |-> IF req.page_id # None THEN req.page_id ELSE Absent,
     closePage |-> Absent]

\* ServiceBrowserManager._encode_service_params: the keys of the query
\* string, Absent for a key that is left out.
_encode_service_params(req) ==
    [contextId |-> IF req.context_id # None THEN req.context_id ELSE Absent,
     pageId |-> IF req.page_id # None THEN req.page_id ELSE Absent,
     closePage |-> IF req.close_page THEN 1 ELSE Absent]

\* ServiceBrowserManager.process_puppeteer_request.  PUPPETEER_INCLUDE_META
\* would copy the request's meta into the ActionRequest's, where no handler
\* reads it: the handlers read puppeteer_request.meta.
process_puppeteer_request(req) ==
    ActionRequest(req.action, req, Absent, _encode_service_params(req))

\* process_response that hands on an error reply without its contextId
ServiceProcessResponse_StripsContext(req, response, f) ==
    IF ~response.json
    THEN Returns("response", response, f)
    ELSE IF response.status # HTTP_OK
    THEN Returns("response", [response EXCEPT !.contextId = None], f)
    ELSE LET typed == _form_response(_get_response_class(req.puppeteer_request.action),
                                     response, req)
         IN Returns("response", typed,
                    [f EXCEPT !.used_contexts = @ \cup {typed.context_id}])

\* ServiceBrowserManager.process_response
ServiceProcessResponse(req, response, f) ==
    IF ~response.json
    THEN Returns("response", response, f)
    ELSE IF response.status # HTTP_OK
    THEN Returns("response", response,
                 IF response.contextId # None
                 THEN [f EXCEPT !.mw_used_contexts = @ \cup {response.contextId}]
                 ELSE f)
    ELSE LET typed == _form_response(_get_response_class(req.puppeteer_request.action),
                                     response, req)
         IN Returns("response", typed,
                    [f EXCEPT !.used_contexts = @ \cup {typed.context_id}])

\* ------------------------------------ PuppeteerContextRestoreDownloaderMiddleware
\* process_request: only a PuppeteerRequest that asks for recover_context and
\* carries no ids is bound; the meta key is popped either way.
RestoreProcessRequest(req) ==
    IF req.cls # "PuppeteerRequest" \/ ~req.meta.recover_context
    THEN req
    ELSE IF req.context_id # None \/ req.page_id # None
    THEN [req EXCEPT !.meta.recover_context = FALSE]
    ELSE [req EXCEPT !.meta.recover_context = FALSE, !.meta.request_binding = TRUE]

\* _update_context_actions
_update_context_actions(req, response, ca) ==
    LET context_id == response.context_id
    IN IF Len(ca[context_id].actions) > RESTORING_LENGTH
       THEN MapDel(ca, context_id)
       ELSE MapPut(ca, context_id, Compose(<<ca[context_id], req.action>>))

\* _restore_context that puts the failed action before the history
_restore_context_FailedFirst(puppeteer_request, response, f) ==
    LET context_id == response.contextId
    IN IF context_id \in DOMAIN f.context_actions
       THEN Returns("request",
                    [puppeteer_request EXCEPT
                        !.oid = f.nobj + 1,
                        !.action = Compose(<<puppeteer_request.action,
                                             f.context_actions[context_id]>>),
                        !.context_id = None,
                        !.page_id = None,
                        !.meta.request_binding = TRUE],
                    [f EXCEPT !.context_actions = MapDel(@, context_id),
                              !.nobj = @ + 1])
       ELSE Returns("response", response, f)

\* _restore_context
_restore_context(puppeteer_request, response, f) ==
    LET context_id == response.contextId
    IN IF context_id \in DOMAIN f.context_actions
       THEN Returns("request",
                    [puppeteer_request EXCEPT
                        !.oid = f.nobj + 1,
                        !.action = Compose(<<f.context_actions[context_id],
                                             puppeteer_request.action>>),
                        !.context_id = None,
                        !.page_id = None,
                        !.meta.request_binding = TRUE],
                    [f EXCEPT !.context_actions = MapDel(@, context_id),
                              !.nobj = @ + 1])
       ELSE Returns("response", response, f)

\* process_response that takes every error status for a lost session
RestoreProcessResponse_AnyError(req, response, f) ==
    LET puppeteer_request == req.puppeteer_request
        request_binding == puppeteer_request.meta.request_binding
    IN IF IsPuppeteerResponse(response)
       THEN IF request_binding
            THEN Returns("response", response,
                         [f EXCEPT !.context_actions =
                             MapPut(@, response.context_id, Compose(<<req.action>>))])
            ELSE IF response.context_id \in DOMAIN f.context_actions
            THEN Returns("response", response,
                         [f EXCEPT !.context_actions =
                             _update_context_actions(req, response, @)])
            ELSE Returns("response", response, f)
       ELSE IF request_binding
       THEN Returns("response", response, f)
       ELSE _restore_context(puppeteer_request, response, f)

\* process_response
RestoreProcessResponse(req, response, f) ==
    LET puppeteer_request == req.puppeteer_request
        request_binding == puppeteer_request.meta.request_binding
    IN IF IsPuppeteerResponse(response)
       THEN IF request_binding
            THEN Returns("response", response,
                         [f EXCEPT !.context_actions =
                             MapPut(@, response.context_id, Compose(<<req.action>>))])
            ELSE IF response.context_id \in DOMAIN f.context_actions
            THEN Returns("response", response,
                         [f EXCEPT !.context_actions =
                             _update_context_actions(req, response, @)])
            ELSE Returns("response", response, f)
       ELSE IF response.status = UNPROCESSABLE_ENTITY
       THEN IF request_binding
            THEN IF (IF req.binding_count = Absent THEN 0 ELSE req.binding_count)
                        < N_RETRY_RESTORING
                 THEN \* new_request.meta["__request_binding_count"] += 1
                      IF req.binding_count = Absent
                      THEN Returns("raise", "KeyError", f)
                      ELSE Returns("request",
                                   [req EXCEPT !.binding_count = @ + 1], f)
                 ELSE Returns("response", response, f)
            ELSE _restore_context(puppeteer_request, response, f)
       ELSE Returns("response", response, f)

\* -------------------------------------------- PuppeteerRecaptchaDownloaderMiddleware
\* the exempt actions without Screenshot
ExemptKinds_WithoutScreenshot == {"scroll", "action", "recaptcha_solver"}

\* (Screenshot, Scroll, CustomJsAction, RecaptchaSolver)
ExemptKinds == {"screenshot", "scroll", "action", "recaptcha_solver"}

\* process_request that remembers the close but leaves it on the request
RecaptchaProcessRequest_KeepsClose(req, f) ==
    IF req.cls = "PuppeteerRequest" /\ ~req.meta.dont_recaptcha
       /\ req.close_page /\ ~req.meta.captcha_submission
       /\ req.oid \notin f.page_closing
    THEN Returns("request", req, [f EXCEPT !.page_closing = @ \cup {req.oid}])
    ELSE Returns("none", req, f)

\* process_request
RecaptchaProcessRequest(req, f) ==
    IF req.cls = "PuppeteerRequest" /\ ~req.meta.dont_recaptcha
       /\ req.close_page /\ ~req.meta.captcha_submission
    THEN Returns("request", [req EXCEPT !.close_page = FALSE],
                 [f EXCEPT !.page_closing = @ \cup {req.oid}])
    ELSE Returns("none", req, f)

\* __is_closing: [close_page, fields]; a page id that is not in
\* _page_responses is a KeyError.
IsClosingRaises(response, f) == response.page_id \notin DOMAIN f.page_responses

__is_closing(response, remove_request, f) ==
    LET main_request == f.page_responses[response.page_id].puppeteer_request
        close_page == main_request.oid \in f.page_closing
    IN [close_page |-> close_page,
        fields |-> IF close_page /\ remove_request
                   THEN [f EXCEPT !.page_closing = @ \ {main_request.oid}]
                   ELSE f]

\* __gen_response that hands back the sub-request's response
__gen_response_ReturnsLast(response, f) ==
    IF IsClosingRaises(response, f)
    THEN Returns("raise", "KeyError", f)
    ELSE LET closing == __is_closing(response, TRUE, f)
         IN Returns("response", response,
                    [closing.fields EXCEPT
                        !.page_responses = MapDel(@, response.page_id)])

\* __gen_response
__gen_response(response, f) ==
    IF IsClosingRaises(response, f)
    THEN Returns("raise", "KeyError", f)
    ELSE LET closing == __is_closing(response, TRUE, f)
             main_response == f.page_responses[response.page_id]
             page_id == IF closing.close_page THEN None
                        ELSE response.puppeteer_request.page_id
             patched ==
                 IF main_response.cls \in {"PuppeteerHtmlResponse",
                                           "PuppeteerRecaptchaSolverResponse"}
                    /\ response.puppeteer_request.action.kind
                           \in {"recaptcha_solver", "click"}
                 THEN [main_response EXCEPT !.page_id = page_id, !.body = response.body]
                 ELSE [main_response EXCEPT !.page_id = page_id]
         IN Returns("response", patched,
                    [closing.fields EXCEPT
                        !.page_responses = MapDel(@, response.page_id)])

\* _solve_recaptcha
_solve_recaptcha(req, response, f) ==
    LET stored == [f EXCEPT !.page_responses = MapPut(@, response.page_id, response)]
        closing == __is_closing(response, FALSE, stored)
        recaptcha_solver == RecaptchaSolver(f.recaptcha_solving, closing.close_page)
    IN Returns("request",
               Follow(f.nobj + 1, response, recaptcha_solver, FALSE,
                      [NoMeta EXCEPT !.captcha_solving = TRUE]),
               [closing.fields EXCEPT !.nobj = @ + 1])

\* The first entry of the table whose domain is in the URL, 0 if none.
RECURSIVE FirstMatch(_, _)
FirstMatch(table, i) ==
    IF i > Len(table) THEN 0
    ELSE IF table[i].matches THEN i
    ELSE FirstMatch(table, i + 1)

\* _submit_recaptcha that hands back the stored response when no entry matches
_submit_recaptcha_NeverFatal(req, response, f) ==
    IF ~response.puppeteer_request.action.solve_recaptcha
    THEN __gen_response(response, f)
    ELSE IF response.captchas /\ f.submit_selectors # <<>>
    THEN LET i == FirstMatch(f.submit_selectors, 1)
         IN IF i = 0
            THEN __gen_response(response, f)
            ELSE IF f.submit_selectors[i].selector = ""
            THEN __gen_response(response, f)
            ELSE IF IsClosingRaises(response, f)
            THEN Returns("raise", "KeyError", f)
            ELSE LET closing == __is_closing(response, TRUE, f)
                 IN Returns("request",
                            Follow(f.nobj + 1, response, Atom("click", 0),
                                   closing.close_page,
                                   [NoMeta EXCEPT !.captcha_submission = TRUE]),
                            [closing.fields EXCEPT !.nobj = @ + 1])
    ELSE __gen_response(response, f)

\* _submit_recaptcha that does not look at the solver's solve_recaptcha flag
_submit_recaptcha_IgnoresSolving(req, response, f) ==
    IF response.captchas /\ f.submit_selectors # <<>>
    THEN LET i == FirstMatch(f.submit_selectors, 1)
         IN IF i = 0
            THEN Returns("raise", "IgnoreRequest", f)
            ELSE IF f.submit_selectors[i].selector = ""
            THEN __gen_response(response, f)
            ELSE IF IsClosingRaises(response, f)
            THEN Returns("raise", "KeyError", f)
            ELSE LET closing == __is_closing(response, TRUE, f)
                 IN Returns("request",
                            Follow(f.nobj + 1, response, Atom("click", 0),
                                   closing.close_page,
                                   [NoMeta EXCEPT !.captcha_submission = TRUE]),
                            [closing.fields EXCEPT !.nobj = @ + 1])
    ELSE __gen_response(response, f)

\* _submit_recaptcha
_submit_recaptcha(req, response, f) ==
    IF ~response.puppeteer_request.action.solve_recaptcha
    THEN __gen_response(response, f)
    ELSE IF response.captchas /\ f.submit_selectors # <<>>
    THEN LET i == FirstMatch(f.submit_selectors, 1)
         IN IF i = 0
            THEN Returns("raise", "IgnoreRequest", f)
            ELSE IF f.submit_selectors[i].selector = ""
            THEN __gen_response(response, f)
            ELSE IF IsClosingRaises(response, f)
            THEN Returns("raise", "KeyError", f)
            ELSE LET closing == __is_closing(response, TRUE, f)
                 IN Returns("request",
                            Follow(f.nobj + 1, response, Atom("click", 0),
                                   closing.close_page,
                                   [NoMeta EXCEPT !.captcha_submission = TRUE]),
                            [closing.fields EXCEPT !.nobj = @ + 1])
    ELSE __gen_response(response, f)

\* process_response
RecaptchaProcessResponse(req, response, f) ==
    IF ~IsPuppeteerResponse(response)
    THEN Returns("response", response, f)
    ELSE LET puppeteer_request == response.puppeteer_request
             \* meta.pop: the flag is gone from the request the response refers to
             popped == [response EXCEPT
                           !.puppeteer_request.meta.captcha_submission = FALSE,
                           !.puppeteer_request.meta.captcha_solving =
                               IF puppeteer_request.meta.captcha_submission
                               THEN @ ELSE FALSE]
         IN IF puppeteer_request.meta.dont_recaptcha
            THEN Returns("response", response, f)
            ELSE IF puppeteer_request.meta.captcha_submission
            THEN __gen_response(popped, f)
            ELSE IF puppeteer_request.meta.captcha_solving
            THEN _submit_recaptcha(req, popped, f)
            ELSE IF puppeteer_request.action.kind \in ExemptKinds
            THEN Returns("response", response, f)
            ELSE _solve_recaptcha(req, response, f)

\* ------------------------------------------------------------------ spider
StepLimit == IF "recaptcha" \in middlewares THEN MaxCaptchaSteps ELSE MaxSteps

\* start_requests: the first request of a page sequence, a GoTo without ids.
SpiderStart(close_page, meta) ==
    /\ crawl = "running" /\ pc = "idle" /\ steps < StepLimit
    /\ LET req == PuppeteerRequest(nobj + 1, Atom("goto", steps + 1), None, None,
                                   close_page, meta)
       IN /\ request' = req
          /\ session' = [NewSession EXCEPT !.current = req]
    /\ pc' = "scheduled"
    /\ steps' = steps + 1
    /\ nobj' = nobj + 1
    /\ delivered' = 0
    /\ UNCHANGED <<middlewares, settings, last, nextCtx, nextPage, context_actions,
                   used_contexts, mw_used_contexts, close_requests, crawl,
                   page_responses, page_closing, audit, library>>

\* A callback that follows the response it was given.
SpiderFollow(kind, close_page, meta) ==
    /\ crawl = "running" /\ pc = "idle" /\ steps < StepLimit
    /\ IsPuppeteerResponse(last)
    /\ LET req == Follow(nobj + 1, last, Atom(kind, steps + 1), close_page, meta)
       IN /\ request' = req
          /\ session' = [session EXCEPT !.current = req, !.followed = last,
                                        !.sent = <<>>, !.typed = NoDelivery,
                                        !.restored = NoRestore,
                                        !.boot422 = 0, !.errors = 0,
                                        !.captchas = FALSE,
                                        !.reply = NoDelivery]
    /\ pc' = "scheduled"
    /\ steps' = steps + 1
    /\ nobj' = nobj + 1
    /\ delivered' = 0
    /\ UNCHANGED <<middlewares, settings, last, nextCtx, nextPage, context_actions,
                   used_contexts, mw_used_contexts, close_requests, crawl,
                   page_responses, page_closing, audit, library>>

\* ------------------------------------------------------------------ engine
\* The process_request chain (recaptcha 1040, restore 1041, service 1042).  A
\* handler that returns a request has it rescheduled; requests that are not
\* PuppeteerRequests pass every handler and are downloaded.
ProcessRequest ==
    /\ pc = "scheduled"
    /\ IF request.cls = "ActionRequest"
       THEN /\ pc' = "downloading"
            /\ session' = [session EXCEPT !.sent = Append(@, request.puppeteer_request)]
            /\ UNCHANGED <<request, page_closing>>
       ELSE LET r1 == IF "recaptcha" \in middlewares
                      THEN RecaptchaProcessRequest(request, Fields)
                      ELSE Returns("none", request, Fields)
                r2 == IF "restore" \in middlewares
                      THEN RestoreProcessRequest(r1.value)
                      ELSE r1.value
            IN /\ request' = IF r1.kind = "request" THEN r1.value
                             ELSE process_puppeteer_request(r2)
               /\ page_closing' = r1.fields.page_closing
               /\ UNCHANGED <<pc, session>>
    /\ UNCHANGED <<middlewares, settings, last, delivered, steps, nobj, nextCtx, nextPage,
                   context_actions, used_contexts, mw_used_contexts, close_requests,
                   crawl, page_responses, audit, library>>

\* The process_response chain (service, then restore, then recaptcha) run on
\* the service's reply to the request being downloaded.  A handler that
\* returns a request or raises ends the chain.
\*   status, json  the reply's status and whether its body is JSON
\*   carries       the body has a contextId
\*   captchas      a recaptcha_solver reply lists a captcha
ProcessResponse(status, json, carries, captchas) ==
    /\ pc = "downloading"
    /\ status = HTTP_OK => json /\ carries
    /\ ~json => ~carries /\ status # UNPROCESSABLE_ENTITY
    /\ captchas => status = HTTP_OK
                   /\ request.puppeteer_request.action.kind = "recaptcha_solver"
    /\ LET puppeteer_request == request.puppeteer_request
           newCtx == carries /\ puppeteer_request.context_id = None
           newPage == status = HTTP_OK /\ puppeteer_request.page_id = None
           contextId == IF ~carries THEN None
                        ELSE IF newCtx THEN nextCtx + 1
                        ELSE puppeteer_request.context_id
           pageId == IF status # HTTP_OK THEN None
                     ELSE IF newPage THEN nextPage + 1
                     ELSE puppeteer_request.page_id
           reply == RawResponse(status, json, contextId, pageId, captchas,
                                puppeteer_request.action.kind)
           r1 == ServiceProcessResponse(request, reply, Fields)
           r2 == IF "restore" \in middlewares /\ r1.kind = "response"
                 THEN RestoreProcessResponse(request, r1.value, r1.fields)
                 ELSE r1
           r3 == IF "recaptcha" \in middlewares /\ r2.kind = "response"
                 THEN RecaptchaProcessResponse(request, r2.value, r2.fields)
                 ELSE r2
           bound422 == status = UNPROCESSABLE_ENTITY
                       /\ puppeteer_request.meta.request_binding
                       /\ "restore" \in middlewares
           replayed == r2.kind = "request" /\ r2.value.cls = "PuppeteerRequest"
           retried == r2.kind = "request" /\ r2.value.cls = "ActionRequest"
           counted == [session EXCEPT
                          !.boot422 = IF bound422 THEN @ + 1 ELSE @,
                          !.errors = IF status # HTTP_OK THEN @ + 1 ELSE @,
                          !.captchas = @ \/ captchas,
                          !.reply = reply,
                          !.typed = IF Len(session.sent) = 1
                                       /\ r1.kind = "response"
                                       /\ IsPuppeteerResponse(r1.value)
                                    THEN r1.value ELSE @,
                          !.replays = IF replayed THEN @ + 1 ELSE @,
                          !.retries = IF retried THEN @ + 1 ELSE @,
                          !.restored =
                              IF replayed
                              THEN [oid |-> r2.value.oid, context_id |-> contextId,
                                    history |-> context_actions[contextId].actions]
                              ELSE @]
       IN /\ newCtx => nextCtx < MaxIds
          /\ newPage => nextPage < MaxIds
          /\ nextCtx' = IF newCtx THEN nextCtx + 1 ELSE nextCtx
          /\ nextPage' = IF newPage THEN nextPage + 1 ELSE nextPage
          /\ context_actions' = r3.fields.context_actions
          /\ used_contexts' = r3.fields.used_contexts
          /\ mw_used_contexts' = r3.fields.mw_used_contexts
          /\ page_responses' = r3.fields.page_responses
          /\ page_closing' = r3.fields.page_closing
          /\ nobj' = r3.fields.nobj
          /\ audit' = [audit EXCEPT
                          !.observed = IF carries THEN @ \cup {contextId} ELSE @,
                          !.since_reply = 0]
          /\ IF r3.kind = "request"
             THEN /\ request' = r3.value
                  /\ pc' = "scheduled"
                  /\ session' = counted
                  /\ UNCHANGED <<last, delivered>>
             ELSE /\ request' = NoRequest
                  /\ pc' = "idle"
                  /\ last' = IF r3.kind = "raise" THEN Failure(r3.value) ELSE r3.value
                  /\ delivered' = delivered + 1
                  /\ session' =
                        IF r3.kind = "response" /\ IsPuppeteerResponse(r3.value)
                        THEN [counted EXCEPT
                                 !.completed = Append(@, session.current.action),
                                 !.exchanges = Append(@,
                                     [kind |-> request.puppeteer_request.action.kind,
                                      service_params |-> request.service_params,
                                      response |->
                                          [cls |-> r3.value.cls,
                                           context_id |-> r3.value.context_id,
                                           page_id |-> r3.value.page_id,
                                           puppeteer_request |->
                                               [close_page |->
                                                   r3.value.puppeteer_request.close_page]]])]
                        ELSE counted
    /\ UNCHANGED <<middlewares, settings, steps, close_requests, crawl, library>>

\* ------------------------------------------------------------ spider_idle
SeqRange(q) == {q[i] : i \in 1..Len(q)}

\* list(set): the ids of a set, each once.
RECURSIVE SetToSeq(_)
SetToSeq(S) ==
    IF S = {} THEN <<>>
    ELSE LET x == CHOOSE y \in S : \A z \in S : y <= z
         IN <<x>> \o SetToSeq(S \ {x})

\* close_used_contexts that lets the spider close
close_used_contexts_NoDefer(used) ==
    LET contexts == SetToSeq(used)
    IN [used_contexts |-> {},
        downloads |-> IF contexts # <<>> THEN <<contexts>> ELSE <<>>,
        DontCloseSpider |-> FALSE]

\* close_used_contexts that raises DontCloseSpider whatever the registry holds
close_used_contexts_AlwaysDefer(used) ==
    LET contexts == SetToSeq(used)
    IN [used_contexts |-> {},
        downloads |-> IF contexts # <<>> THEN <<contexts>> ELSE <<>>,
        DontCloseSpider |-> TRUE]

\* close_used_contexts that reads the registry entry without popping it
close_used_contexts_NoPop(used) ==
    LET contexts == SetToSeq(used)
    IN [used_contexts |-> used,
        downloads |-> IF contexts # <<>> THEN <<contexts>> ELSE <<>>,
        DontCloseSpider |-> contexts # <<>>]

\* ServiceBrowserManager.close_used_contexts: the registry entry is popped; if
\* it held ids, one CloseContextRequest is downloaded and DontCloseSpider raised.
close_used_contexts(used) ==
    LET contexts == SetToSeq(used)
    IN [used_contexts |-> {},
        downloads |-> IF contexts # <<>> THEN <<contexts>> ELSE <<>>,
        DontCloseSpider |-> contexts # <<>>]

\* The engine is idle (nothing scheduled, nothing in the downloader) and
\* sends spider_idle, to which from_crawler connected close_used_contexts; the
\* spider is closed unless the handler raises DontCloseSpider.
SpiderIdle ==
    /\ crawl = "running" /\ pc = "idle" /\ close_requests = <<>>
    /\ LET r == close_used_contexts(used_contexts)
       IN /\ used_contexts' = r.used_contexts
          /\ close_requests' = close_requests \o r.downloads
          /\ crawl' = IF r.DontCloseSpider THEN "running" ELSE "closed"
          /\ audit' = [audit EXCEPT
                          !.observed = @ \ used_contexts,
                          !.flush_before = used_contexts,
                          !.flush_issued = r.downloads,
                          !.since_reply = @ + Len(r.downloads),
                          !.deferred = r.DontCloseSpider,
                          !.closed = @ \cup UNION {SeqRange(r.downloads[i]) :
                                                      i \in 1..Len(r.downloads)}]
    /\ UNCHANGED <<middlewares, settings, pc, request, last, delivered, steps, nobj,
                   nextCtx, nextPage, context_actions, mw_used_contexts,
                   page_responses, page_closing, session, library>>

\* handle_close_contexts_result that records the contexts again on failure
CloseResult_PutsBack(result) ==
    /\ close_requests # <<>>
    /\ result \in {"200", "500", "Failure"}
    /\ close_requests' = Tail(close_requests)
    /\ used_contexts' = IF result = "200" THEN used_contexts
                        ELSE used_contexts \cup SeqRange(Head(close_requests))
    /\ audit' = [audit EXCEPT !.close_result = result]
    /\ UNCHANGED <<middlewares, settings, pc, request, last, delivered, steps, nobj,
                   nextCtx, nextPage, context_actions, mw_used_contexts,
                   crawl, page_responses, page_closing, session, library>>

\* handle_close_contexts_result: the download of the CloseContextRequest ends
\* in a response (200 or not) or a Failure; the handler logs and that is all.
CloseResult(result) ==
    /\ close_requests # <<>>
    /\ result \in {"200", "500", "Failure"}
    /\ close_requests' = Tail(close_requests)
    /\ audit' = [audit EXCEPT !.close_result = result]
    /\ UNCHANGED <<middlewares, settings, pc, request, last, delivered, steps, nobj,
                   nextCtx, nextPage, context_actions, used_contexts, mw_used_contexts,
                   crawl, page_responses, page_closing, session, library>>

\* ---------------------------------------------------------- specifications
Statuses == {HTTP_OK, UNPROCESSABLE_ENTITY, 500}

\* The pipeline of examples/spiders/dead_context.py: restore and service.
Init == InitWith({"restore"}, {TRUE}, {<<>>})

Next ==
    \/ \E recover \in BOOLEAN :
          SpiderStart(FALSE, [NoMeta EXCEPT !.recover_context = recover])
    \/ \E kind \in {"click", "screenshot"}, recover \in BOOLEAN :
          SpiderFollow(kind, FALSE, [NoMeta EXCEPT !.recover_context = recover])
    \/ ProcessRequest
    \/ \E status \in Statuses, json \in BOOLEAN, carries \in BOOLEAN :
          ProcessResponse(status, json, carries, FALSE)
    \/ SpiderIdle
    \/ \E result \in {"200", "500", "Failure"} : CloseResult(result)

Spec == Init /\ [][Next]_vars

\* The pipeline of examples/settings.py and tests/spiders.py: service alone.
InitPlain == InitWith({}, {TRUE}, {<<>>})

NextPlain ==
    \/ \E close_page \in BOOLEAN : SpiderStart(close_page, NoMeta)
    \/ \E kind \in {"click", "screenshot"}, close_page \in BOOLEAN :
          SpiderFollow(kind, close_page, NoMeta)
    \/ ProcessRequest
    \/ \E status \in {HTTP_OK, 500}, carries \in BOOLEAN :
          ProcessResponse(status, TRUE, carries, FALSE)

SpecPlain == InitPlain /\ [][NextPlain]_vars

\* The pipeline of examples/spiders/auto_recaptcha.py: recaptcha and service,
\* under every setting of RECAPTCHA_SOLVING and RECAPTCHA_SUBMIT_SELECTORS.
InitCaptcha == InitWith({"recaptcha"}, BOOLEAN, SelectorTables)

NextCaptcha ==
    \/ \E close_page \in BOOLEAN, dont_recaptcha \in BOOLEAN :
          SpiderStart(close_page, [NoMeta EXCEPT !.dont_recaptcha = dont_recaptcha])
    \/ \E kind \in {"click", "screenshot", "har"}, close_page \in BOOLEAN,
          dont_recaptcha \in BOOLEAN :
          SpiderFollow(kind, close_page,
                       [NoMeta EXCEPT !.dont_recaptcha = dont_recaptcha])
    \/ ProcessRequest
    \/ \E status \in {HTTP_OK, 500}, captchas \in BOOLEAN :
          ProcessResponse(status, TRUE, status = HTTP_OK, captchas)

SpecCaptcha == InitCaptcha /\ [][NextCaptcha]_vars

\* The service pipeline with the idle handler, for the end of the crawl.  The
\* engine sends spider_idle again for as long as it stays idle and the spider
\* open, and the download of a CloseContextRequest ends one way or another.
NextShutdown ==
    \/ SpiderStart(FALSE, NoMeta)
    \/ \E kind \in {"click", "screenshot"} : SpiderFollow(kind, FALSE, NoMeta)
    \/ ProcessRequest
    \/ \E status \in {HTTP_OK, 500}, carries \in BOOLEAN :
          ProcessResponse(status, TRUE, carries, FALSE)
    \/ SpiderIdle
    \/ \E result \in {"200", "500", "Failure"} : CloseResult(result)

SpecShutdown ==
    /\ InitPlain /\ [][NextShutdown]_vars
    /\ WF_vars(SpiderIdle)
    /\ WF_vars(\E result \in {"200", "500", "Failure"} : CloseResult(result))

\* ------------------------------------------------ follow and follow_all
MaxCalls == 2            \* follow / follow_all calls of a callback
MaxItems == 2            \* items handed to one follow_all call

\* A URL is [absolute, base, path]: base is what a relative URL is resolved
\* against (scheme, host and directory), 0 in a relative URL.
RelativeUrl(path) == [absolute |-> FALSE, base |-> 0, path |-> path]
AbsoluteUrl(base, path) == [absolute |-> TRUE, base |-> base, path |-> path]

\* Response.urljoin(url): urllib's urljoin against the response's URL
urljoin(response, url) ==
    IF url.absolute THEN url ELSE AbsoluteUrl(response.url.base, url.path)

\* The two responses a callback has at hand: different URLs, different pages.
ResponseIds == {1, 2}

FollowedResponse(r, close_page) ==
    [cls |-> "PuppeteerHtmlResponse", url |-> AbsoluteUrl(r, 0),
     context_id |-> r, page_id |-> r,
     puppeteer_request |-> [close_page |-> close_page]]

\* What a callback may hand to follow, or list for follow_all:
\*   str      a URL string (a Selector or Link is reduced to its URL likewise)
\*   goto     a GoTo object it holds (ref)
\*   compose  Compose(GoTo object, Click)
\*   click    a Click
\*   bad      an object that is neither a URL nor an action
Items ==
    {[form |-> "str", ref |-> 0], [form |-> "click", ref |-> 0],
     [form |-> "bad", ref |-> 0]}
    \cup {[form |-> f, ref |-> g] : f \in {"goto", "compose"},
                                    g \in DOMAIN goto_objects}

\* The Navigate of an item, if it has one: the URL the caller wrote and the
\* action object that carries it.
HasNavigate(item) == item.form \in {"str", "goto", "compose"}
GivenUrl(item) ==
    IF item.form \in {"goto", "compose"} THEN goto_objects[item.ref].given
    ELSE RelativeUrl(1)

\* PuppeteerResponse.follow together with PuppeteerRequest.__init__:
\* [raised, goto_objects, request, url, navigate]; navigate is the URL of the
\* request's GoTo when it is sent, url the request's own URL.
FollowItem(oid, response, item, close_page, objs) ==
    CASE item.form = "str" ->
            \* action = self.urljoin(action); PuppeteerRequest makes a GoTo of it
            LET url == urljoin(response, RelativeUrl(1))
            IN [raised |-> FALSE, goto_objects |-> objs,
                request |-> Follow(oid, response, Atom("goto", 0), close_page, NoMeta),
                url |-> url, navigate |-> url]
      [] item.form = "goto" ->
            \* action.url = self.urljoin(action.url)
            LET url == urljoin(response, objs[item.ref].url)
            IN [raised |-> FALSE,
                goto_objects |-> [objs EXCEPT ![item.ref].url = url],
                request |-> Follow(oid, response, Atom("goto", item.ref), close_page,
                                   NoMeta),
                url |-> url, navigate |-> url]
      [] item.form = "compose" ->
            \* kwargs["url"] = self.url
            [raised |-> FALSE, goto_objects |-> objs,
             request |-> Follow(oid, response,
                                Compose(<<Atom("goto", item.ref), Atom("click", 0)>>),
                                close_page, NoMeta),
             url |-> response.url, navigate |-> objs[item.ref].url]
      [] item.form = "click" ->
            [raised |-> FALSE, goto_objects |-> objs,
             request |-> Follow(oid, response, Atom("click", 0), close_page, NoMeta),
             url |-> response.url, navigate |-> response.url]
      [] OTHER ->
            \* ValueError("Undefined browser action")
            [raised |-> TRUE, goto_objects |-> objs, request |-> NoRequest,
             url |-> response.url, navigate |-> response.url]

\* follow_all, the check of the actions argument: a PuppeteerServiceAction
\* must be a GoTo or a Compose that starts with one.
FollowAllRejects(items) ==
    \E i \in 1..Len(items) : items[i].form = "click"

\* One produced request, with what the properties need to know about it.
Yield(via, r, item, res) ==
    [via |-> via, response |-> r, item |-> item, request |-> res.request,
     url |-> res.url, navigate |-> res.navigate, given |-> GivenUrl(item)]

\* follow_all's loop body without the finally clause
FollowAllBody_NoFinally(gen, response, objs, oid) ==
    LET cleared == [response EXCEPT !.page_id = None]
        res == FollowItem(oid, cleared, gen.items[gen.i], gen.close_page, objs)
    IN [res |-> res,
        response |-> IF res.raised THEN cleared
                     ELSE [cleared EXCEPT !.page_id = gen.page_id]]

\* follow_all's loop body: page_id is cleared, follow is called, and page_id
\* is set back in the finally clause before the request is yielded.
FollowAllBody(gen, response, objs, oid) ==
    LET cleared == [response EXCEPT !.page_id = None]
        res == FollowItem(oid, cleared, gen.items[gen.i], gen.close_page, objs)
    IN [res |-> res,
        response |-> [cleared EXCEPT !.page_id = gen.page_id]]

\* GoTo(url) as constructed with a relative URL; given keeps what the caller
\* wrote, url is the attribute follow reads and writes.
GoTo(path) == [url |-> RelativeUrl(path), given |-> RelativeUrl(path)]

\* response.follow(item, close_page=...)
CallFollow(r, item, close_page) ==
    /\ responses # <<>> /\ calls < MaxCalls
    /\ generator.state \notin {"created", "running"}
    /\ item \in Items
    /\ LET res == FollowItem((calls + 1) * (MaxItems + 1), responses[r], item,
                              close_page, goto_objects)
       IN /\ goto_objects' = res.goto_objects
          /\ yielded' = IF res.raised THEN <<>>
                        ELSE <<Yield("follow", r, item, res)>>
    /\ calls' = calls + 1
    /\ generator' = NoGenerator
    /\ UNCHANGED <<pipeline, responses, executed, driver, encoded, built, waited>>

\* The callback puts one more item on the list it will hand to follow_all;
\* the requests it got before have gone to the engine.
ListItem(item) ==
    /\ responses # <<>> /\ calls < MaxCalls
    /\ generator.state \notin {"created", "running"}
    /\ item \in Items
    /\ generator.state = "listing" => Len(generator.items) < MaxItems
    /\ generator' = [state |-> "listing",
                     items |-> IF generator.state = "listing"
                               THEN Append(generator.items, item) ELSE <<item>>]
    /\ yielded' = <<>>
    /\ UNCHANGED <<pipeline, goto_objects, responses, calls, executed, driver, encoded, built, waited>>

\* response.follow_all(items, close_page=...) with the list put together, or
\* an empty one: the generator is created; its body runs when the callback
\* asks for the first request.
CallFollowAll(r, close_page) ==
    /\ responses # <<>> /\ calls < MaxCalls
    /\ generator.state \notin {"created", "running"}
    /\ generator' = [state |-> "created", response |-> r,
                     items |-> IF generator.state = "listing"
                               THEN generator.items ELSE <<>>,
                     i |-> 1, close_page |-> close_page, page_id |-> None]
    /\ yielded' = <<>>
    /\ calls' = calls + 1
    /\ UNCHANGED <<pipeline, goto_objects, responses, executed, driver, encoded, built, waited>>

\* next(generator): up to the next yield, the end of the loop, or an exception
GeneratorNext ==
    /\ generator.state \in {"created", "running"}
    /\ LET r == generator.response
           gen == IF generator.state = "created"
                  THEN [generator EXCEPT !.page_id = responses[r].page_id,
                                         !.state = "running"]
                  ELSE generator
       IN IF generator.state = "created" /\ FollowAllRejects(generator.items)
          THEN /\ generator' = [generator EXCEPT !.state = "TypeError"]
               /\ UNCHANGED <<goto_objects, responses, yielded>>
          ELSE IF gen.i > Len(gen.items)
          THEN /\ generator' = [gen EXCEPT !.state = "finished"]
               /\ UNCHANGED <<goto_objects, responses, yielded>>
          ELSE LET body == FollowAllBody(gen, responses[r], goto_objects,
                                         calls * (MaxItems + 1) + gen.i)
               IN /\ responses' = [responses EXCEPT ![r] = body.response]
                  /\ goto_objects' = body.res.goto_objects
                  /\ IF body.res.raised
                     THEN /\ generator' = [gen EXCEPT !.state = "ValueError"]
                          /\ UNCHANGED yielded
                     ELSE /\ generator' = [gen EXCEPT !.i = @ + 1]
                          /\ yielded' = Append(yielded,
                                               Yield("follow_all", r, gen.items[gen.i],
                                                     body.res))
    /\ UNCHANGED <<pipeline, calls, executed, driver, encoded, built, waited>>

\* A callback with a GoTo object and two responses at hand, as in examples/spiders/follow.py
\* and tests/spiders.py, over the service pipeline left idle.
InitFollow ==
    /\ InitPipeline({}, {TRUE}, {<<>>})
    /\ goto_objects = <<GoTo(1)>>
    /\ \E c1 \in BOOLEAN, c2 \in BOOLEAN :
          responses = <<FollowedResponse(1, c1), FollowedResponse(2, c2)>>
    /\ generator = NoGenerator
    /\ yielded = <<>>
    /\ calls = 0
    /\ executed = NoExecution
    /\ driver = NoDriver
    /\ encoded = NoEncoding
    /\ built = NothingBuilt
    /\ waited = NotWaiting

NextFollow ==
    \/ \E r \in ResponseIds, item \in Items, close_page \in BOOLEAN :
          CallFollow(r, item, close_page)
    \/ \E item \in Items : ListItem(item)
    \/ \E r \in ResponseIds, close_page \in BOOLEAN : CallFollowAll(r, close_page)
    \/ GeneratorNext

SpecFollow == InitFollow /\ [][NextFollow]_vars

\* -------------------------------------------------------- browser managers
MaxComposeLen == 2       \* actions in one Compose

\* The endpoints of actions.py, and "extension" for an action class that a
\* user of the library adds.
Endpoints ==
    {"goto", "forward", "back", "click", "scroll", "fill_form", "screenshot",
     "har", "recaptcha_solver", "action", "extension"}

AtomicActions == {Atom(kind, 0) : kind \in Endpoints}

ActionCatalog ==
    AtomicActions
    \cup {Compose(args) :
             args \in UNION {[1..n -> AtomicActions] : n \in 1..MaxComposeLen}}

Responded(cls) == [kind |-> "response", cls |-> cls]
Raised(exc) == [kind |-> "raise", cls |-> exc]

\* ServiceBrowserManager: the service executes the action, Compose included,
\* and process_response types its 200 reply.
ServiceExecute(action) == Responded(_get_response_class(action))

\* PlaywrightBrowserManager.action_map and the methods it names.  action,
\* recaptcha_solver and har take (self, request) and are called with
\* (page, request): the call raises TypeError before their body would raise
\* ValueError.
PlaywrightAction(action) ==
    CASE action.kind \in {"goto", "click", "back", "forward", "scroll", "fill_form"}
            -> Responded("PuppeteerHtmlResponse")
      [] action.kind = "screenshot" -> Responded("PuppeteerScreenshotResponse")
      [] action.kind \in {"action", "recaptcha_solver", "har"} -> Raised("TypeError")
      [] OTHER -> Raised("ValueError")

\* PlaywrightBrowserManager.compose: the actions are run in turn on the page,
\* an exception ends the run, the response of the last one is returned.
RECURSIVE PlaywrightCompose(_, _)
PlaywrightCompose(actions, response) ==
    IF actions = <<>> THEN response
    ELSE LET r == IF Head(actions).kind = "extension"
                  THEN Raised("KeyError")   \* self.action_map[action.endpoint]
                  ELSE PlaywrightAction(Head(actions))
         IN IF r.kind = "raise" THEN r ELSE PlaywrightCompose(Tail(actions), r)

\* PlaywrightBrowserManager.__make_action
PlaywrightExecute(action) ==
    IF action.kind = "compose"
    THEN PlaywrightCompose(action.actions, Raised("UnboundLocalError"))
    ELSE PlaywrightAction(action)

\* PyppeteerBrowserManager.process_request: action_map has no "compose"; an
\* endpoint that is not in the map gets no response.
PyppeteerExecute(action) ==
    CASE action.kind \in {"goto", "click", "back", "forward", "scroll", "fill_form"}
            -> Responded("PuppeteerHtmlResponse")
      [] action.kind = "screenshot" -> Responded("PuppeteerScreenshotResponse")
      [] action.kind \in {"action", "recaptcha_solver", "har"} -> Raised("ValueError")
      [] OTHER -> [kind |-> "none", cls |-> "None"]

\* An action that no browser manager has executed yet.
Pending(action) ==
    [backend |-> "none", action |-> action, outcome |-> [kind |-> "none", cls |-> "None"]]

\* EXECUTION_METHOD selects the browser manager; it executes the action.
Execute(backend) ==
    /\ executed # NoExecution
    /\ executed' = [executed EXCEPT
                       !.backend = backend,
                       !.outcome =
                           CASE backend = "puppeteer" -> ServiceExecute(executed.action)
                             [] backend = "playwright" -> PlaywrightExecute(executed.action)
                             [] backend = "pyppeteer" -> PyppeteerExecute(executed.action)]
    /\ UNCHANGED <<pipeline, goto_objects, responses, generator, yielded, calls, driver,
                   encoded, built, waited>>

\* One action of the catalog, to be executed under each execution method.
InitBackends ==
    /\ InitPipeline({}, {TRUE}, {<<>>})
    /\ goto_objects = <<>>
    /\ responses = <<>>
    /\ generator = NoGenerator
    /\ yielded = <<>>
    /\ calls = 0
    /\ \E action \in ActionCatalog : executed = Pending(action)
    /\ driver = NoDriver
    /\ encoded = NoEncoding
    /\ built = NothingBuilt
    /\ waited = NotWaiting

NextBackends ==
    \E backend \in {"puppeteer", "playwright", "pyppeteer"} : Execute(backend)

SpecBackends == InitBackends /\ [][NextBackends]_vars

\* ------------------------------------------------- local browser managers
MaxLocalRequests == 3    \* requests a local browser manager downloads

\* ContextManager.__init__: no context, no page.  pages maps a page id to the
\* context its page was opened in; uuids counts the uuid4 values drawn.
NewDriver(backend) ==
    [backend |-> backend,
     contexts |-> {}, pages |-> EmptyMap, context2page |-> EmptyMap,
     uuids |-> 0,
     requests |-> 0,                     \* requests downloaded so far
     request |-> NoRequest,              \* the last of them
     outcome |-> [kind |-> "none", cls |-> "None"],
     before |-> [contexts |-> {}, pages |-> {}]]   \* the maps' keys before it

\* ContextManager.open_new_page
open_new_page(d) ==
    LET context_id == d.uuids + 1
        page_id == d.uuids + 2
    IN [driver |-> [d EXCEPT !.contexts = @ \cup {context_id},
                             !.pages = MapPut(@, page_id, context_id),
                             !.context2page = MapPut(@, context_id, page_id),
                             !.uuids = @ + 2],
        context_id |-> context_id, page_id |-> page_id]

\* ContextManager.check_context_and_page
check_context_and_page(d, context_id, page_id) ==
    IF context_id = None \/ page_id = None
    THEN open_new_page(d)
    ELSE [driver |-> d, context_id |-> context_id, page_id |-> page_id]

\* ContextManager.get_page_by_id: self.pages[page_id], whatever context_id is
get_page_by_id(d, context_id, page_id) ==
    IF page_id \in DOMAIN d.pages
    THEN [kind |-> "page", context_id |-> d.pages[page_id], page_id |-> page_id]
    ELSE Raised("KeyError")

\* What a download leaves: the ContextManager and the request's outcome.
Downloaded(d, outcome, context_id, page_id) ==
    [driver |-> d,
     outcome |-> IF outcome.kind = "response"
                 THEN [kind |-> "response", cls |-> outcome.cls,
                       context_id |-> context_id, page_id |-> page_id]
                 ELSE outcome]

\* PlaywrightBrowserManager.__make_action with get_page_from_request: the
\* page is resolved before the action's method is called, and the response
\* carries the ids of the BrowserPage.
PlaywrightDownload(d, req) ==
    IF req.action.kind = "extension"
    THEN Downloaded(d, Raised("ValueError"), None, None)
    ELSE LET ids == check_context_and_page(d, req.context_id, req.page_id)
             page == get_page_by_id(ids.driver, ids.context_id, ids.page_id)
         IN IF page.kind = "raise"
            THEN Downloaded(ids.driver, page, None, None)
            ELSE Downloaded(ids.driver, PlaywrightExecute(req.action),
                            page.context_id, page.page_id)

\* PyppeteerBrowserManager.process_request and the methods of action_map:
\* each method that drives the browser resolves the page itself and answers
\* with the ids check_context_and_page returned.
PyppeteerDownload(d, req) ==
    LET outcome == PyppeteerExecute(req.action)
    IN IF outcome.kind # "response"
       THEN Downloaded(d, outcome, None, None)
       ELSE LET ids == check_context_and_page(d, req.context_id, req.page_id)
                page == get_page_by_id(ids.driver, ids.context_id, ids.page_id)
            IN IF page.kind = "raise"
               THEN Downloaded(ids.driver, page, None, None)
               ELSE Downloaded(ids.driver, outcome, ids.context_id, ids.page_id)

\* ContextManager.close_contexts
RECURSIVE close_contexts(_, _)
close_contexts(d, contexts) ==
    IF contexts = <<>> THEN d
    ELSE LET context_id == Head(contexts)
         IN close_contexts(
                IF context_id \in d.contexts
                THEN [d EXCEPT !.pages = MapDel(@, d.context2page[context_id]),
                               !.contexts = @ \ {context_id},
                               !.context2page = MapDel(@, context_id)]
                ELSE d,
                Tail(contexts))

\* The ids a request may carry: none, one the driver handed out, or one it
\* never handed out.
RequestIds == 0..(driver.uuids + 1)

LocalActions ==
    {Atom(kind, 0) : kind \in {"goto", "screenshot", "fill_form", "action",
                                "recaptcha_solver", "har", "extension"}}
    \cup {Compose(<<Atom("goto", 0), Atom("click", 0)>>)}

\* The local browser manager downloads a PuppeteerRequest.
DriverDownload(action, context_id, page_id, close_page) ==
    /\ driver # NoDriver /\ driver.requests < MaxLocalRequests
    /\ LET req == PuppeteerRequest(driver.requests + 1, action, context_id, page_id,
                                   close_page, NoMeta)
           r == IF driver.backend = "playwright"
                THEN PlaywrightDownload(driver, req)
                ELSE PyppeteerDownload(driver, req)
       IN driver' = [r.driver EXCEPT
                        !.requests = @ + 1,
                        !.request = req,
                        !.outcome = r.outcome,
                        !.before = [contexts |-> driver.contexts,
                                    pages |-> DOMAIN driver.pages]]
    /\ UNCHANGED <<pipeline, goto_objects, responses, generator, yielded, calls,
                   executed, encoded, built, waited>>

\* The local browser manager downloads a CloseContextRequest.
DriverCloseContexts(contexts) ==
    /\ driver # NoDriver /\ driver.requests < MaxLocalRequests
    /\ driver' = [close_contexts(driver, contexts) EXCEPT
                     !.requests = @ + 1,
                     !.request = [cls |-> "CloseContextRequest", contexts |-> contexts],
                     !.outcome = [kind |-> "none", cls |-> "None"],
                     !.before = [contexts |-> driver.contexts,
                                 pages |-> DOMAIN driver.pages]]
    /\ UNCHANGED <<pipeline, goto_objects, responses, generator, yielded, calls,
                   executed, encoded, built, waited>>

\* EXECUTION_METHOD is playwright or pyppeteer; the browser manager is as its
\* constructor leaves it.
InitLocal ==
    /\ InitPipeline({}, {TRUE}, {<<>>})
    /\ goto_objects = <<>>
    /\ responses = <<>>
    /\ generator = NoGenerator
    /\ yielded = <<>>
    /\ calls = 0
    /\ executed = NoExecution
    /\ \E backend \in {"playwright", "pyppeteer"} : driver = NewDriver(backend)
    /\ encoded = NoEncoding
    /\ built = NothingBuilt
    /\ waited = NotWaiting

NextLocal ==
    \/ \E action \in LocalActions, context_id \in RequestIds, page_id \in RequestIds,
          close_page \in BOOLEAN :
          DriverDownload(action, context_id, page_id, close_page)
    \/ \E context_id \in RequestIds \ {None} : DriverCloseContexts(<<context_id>>)

SpecLocal == InitLocal /\ [][NextLocal]_vars

\* ------------------------------------------------------ request encoding
MaxEncodeSteps == 2      \* actions in a Compose that is serialised

\* An optional argument of an action is None or given; a given value (a dict,
\* a str, a bool) is written 1.
OptionValues == {None, 1}

\* actions.py: the action objects as their constructors leave them.
ServiceAction(endpoint, content_type, attrs) ==
    [endpoint |-> endpoint, content_type |-> content_type, attrs |-> attrs,
     actions |-> <<>>]

GoToAction(navigation_options, wait_options) ==
    ServiceAction("goto", "application/json",
                  [url |-> 1, navigation_options |-> navigation_options,
                   wait_options |-> wait_options, har_recording |-> 1])

ClickAction(click_options, wait_options, navigation_options) ==
    ServiceAction("click", "application/json",
                  [selector |-> 1, click_options |-> click_options,
                   wait_options |-> wait_options,
                   navigation_options |-> navigation_options])

ScrollAction(selector, wait_options) ==
    ServiceAction("scroll", "application/json",
                  [selector |-> selector, wait_options |-> wait_options])

\* Screenshot.__init__: self.options = options or {}
ScreenshotAction(options) ==
    ServiceAction("screenshot", "application/json", [options |-> 1])

HarAction == ServiceAction("har", "application/json", EmptyMap)

FillFormAction(submit_button) ==
    ServiceAction("fill_form", "application/json",
                  [input_mapping |-> 1, submit_button |-> submit_button])

CustomJsAction == ServiceAction("action", "application/javascript", [js_action |-> 1])

\* Compose(*actions), of actions that are not Compose themselves
ComposeAction(actions) ==
    [endpoint |-> "compose", content_type |-> "application/json",
     attrs |-> EmptyMap, actions |-> actions]

\* payload() of the actions with a dict payload
DictPayload(action) ==
    CASE action.endpoint = "goto" ->
            [url |-> action.attrs.url,
             navigationOptions |-> action.attrs.navigation_options,
             waitOptions |-> action.attrs.wait_options,
             harRecording |-> action.attrs.har_recording]
      [] action.endpoint = "click" ->
            [selector |-> action.attrs.selector,
             clickOptions |-> action.attrs.click_options,
             waitOptions |-> action.attrs.wait_options,
             navigationOptions |-> action.attrs.navigation_options]
      [] action.endpoint = "scroll" ->
            [selector |-> action.attrs.selector,
             waitOptions |-> action.attrs.wait_options]
      [] action.endpoint = "screenshot" -> [options |-> action.attrs.options]
      [] action.endpoint = "fill_form" ->
            [inputMapping |-> action.attrs.input_mapping,
             submitButton |-> action.attrs.submit_button]
      [] OTHER -> EmptyMap

\* json.dumps of a dict of scalars: every key is written, None as null.
JsonObject(members) ==
    [kind |-> "object",
     members |-> [k \in DOMAIN members |->
                     IF members[k] = None THEN "null" ELSE "value"]]

\* json.dumps of a str
JsonString == [kind |-> "string", members |-> EmptyMap]

\* json.dumps of action.payload() as it stands
JsonPayload(action) ==
    IF action.endpoint = "action" THEN JsonString
    ELSE JsonObject(DictPayload(action))

\* The dict comprehension of _serialize_body: the keys whose value is not None
WithoutNone(members) ==
    [k \in {x \in DOMAIN members : members[x] # None} |-> members[k]]

\* The body's top-level object with the proxy and headers keys added
WithRequestKeys(members, proxy, include_headers) ==
    LET with_proxy == IF proxy # None THEN MapPut(members, "proxy", proxy)
                      ELSE members
    IN IF include_headers THEN MapPut(with_proxy, "headers", 1) ELSE with_proxy

\* ServiceBrowserManager._serialize_body with the Content-Type header that
\* process_puppeteer_request sets.  Compose.payload() is {"actions": [...]},
\* each step {"endpoint": ..., "body": action.payload()}; a body that is not
\* JSON is str(payload), the script itself.
_serialize_body(action, proxy, include_headers) ==
    IF action.content_type = "application/json"
    THEN IF action.endpoint = "compose"
         THEN [content_type |-> action.content_type,
               json |-> JsonObject(WithRequestKeys(WithoutNone([actions |-> 1]), proxy,
                                                   include_headers)),
               steps |-> [i \in 1..Len(action.actions) |->
                             [endpoint |-> action.actions[i].endpoint,
                              body |-> JsonPayload(action.actions[i])]]]
         ELSE [content_type |-> action.content_type,
               json |-> JsonObject(WithRequestKeys(WithoutNone(DictPayload(action)),
                                                   proxy, include_headers)),
               steps |-> <<>>]
    ELSE [content_type |-> action.content_type, json |-> JsonString, steps |-> <<>>]

AtomicServiceActions ==
    {GoToAction(n, w) : n \in OptionValues, w \in OptionValues}
    \cup {ClickAction(c, w, n) : c \in OptionValues, w \in OptionValues,
                                 n \in OptionValues}
    \cup {ScrollAction(sel, w) : sel \in OptionValues, w \in OptionValues}
    \cup {ScreenshotAction(o) : o \in OptionValues}
    \cup {FillFormAction(b) : b \in OptionValues}
    \cup {HarAction, CustomJsAction}

\* The actions composed: a GoTo, a Click, a script.
StepActions ==
    {GoToAction(n, 1) : n \in OptionValues}
    \cup {ClickAction(None, w, None) : w \in OptionValues}
    \cup {CustomJsAction}

ServiceActions ==
    AtomicServiceActions
    \cup {ComposeAction(actions) :
             actions \in UNION {[1..n -> StepActions] : n \in 1..MaxEncodeSteps}}

NoBody == [content_type |-> "none"]

\* process_puppeteer_request builds the ActionRequest's body.
SerializeBody ==
    /\ encoded # NoEncoding /\ encoded.body = NoBody
    /\ encoded' = [encoded EXCEPT
                      !.body = _serialize_body(encoded.action, encoded.proxy,
                                               encoded.include_headers)]
    /\ UNCHANGED <<pipeline, goto_objects, responses, generator, yielded, calls,
                   executed, driver, built, waited>>

\* A PuppeteerRequest for the service: its action, meta["proxy"], and
\* whether headers are included (the request's include_headers, else the
\* PUPPETEER_INCLUDE_HEADERS setting).
InitEncode ==
    /\ InitPipeline({}, {TRUE}, {<<>>})
    /\ goto_objects = <<>>
    /\ responses = <<>>
    /\ generator = NoGenerator
    /\ yielded = <<>>
    /\ calls = 0
    /\ executed = NoExecution
    /\ driver = NoDriver
    /\ \E action \in ServiceActions, proxy \in OptionValues, include_headers \in BOOLEAN :
          encoded = [action |-> action, proxy |-> proxy,
                     include_headers |-> include_headers, body |-> NoBody]
    /\ built = NothingBuilt
    /\ waited = NotWaiting

NextEncode == SerializeBody

SpecEncode == InitEncode /\ [][NextEncode]_vars

\* ------------------------------------------------- constructing a Compose
MaxComposeArgs == 2      \* arguments of one Compose(...) call
MaxBuilt == 2            \* Compose objects a callback constructs

\* Compose.__init__ without the check for an empty list
NewCompose_AcceptsEmpty(args) ==
    [raised |-> "none", action |-> Compose(args)]

\* Compose.__init__ with the check at the end of __flatten: ValueError when
\* the flattened list is empty, else the object.
NewCompose(args) ==
    IF Flatten(args) = <<>>
    THEN [raised |-> "ValueError", action |-> Atom("compose", 0)]
    ELSE [raised |-> "none", action |-> Compose(args)]

\* Compose.payload: one {"endpoint", "body"} per member, a member's body
\* being its own payload (its tag, for an atomic action).
RECURSIVE ComposePayload(_)
ComposePayload(action) ==
    [i \in 1..Len(action.actions) |->
        [endpoint |-> action.actions[i].kind,
         body |-> IF action.actions[i].kind = "compose"
                  THEN [steps |-> ComposePayload(action.actions[i]), tag |-> 0]
                  ELSE [steps |-> <<>>, tag |-> action.actions[i].tag]]]

\* The arguments of a Compose(...) call as the caller wrote them: an atomic
\* action, or a Compose object built before with the arguments it was given.
Leaf(action) == [leaf |-> TRUE, action |-> action, children |-> <<>>]
Node(children) == [leaf |-> FALSE, action |-> Atom("compose", 0), children |-> children]

ComposableAtoms == {Atom("goto", 1), Atom("click", 1), Atom("screenshot", 1)}

\* What a callback can pass: an atomic action (ref 0) or its ref-th Compose.
Operands ==
    {[ref |-> 0, action |-> a] : a \in ComposableAtoms}
    \cup {[ref |-> i, action |-> built.objects[i].action] : i \in DOMAIN built.objects}

OperandTree(operand) ==
    IF operand.ref = 0 THEN Leaf(operand.action) ELSE built.objects[operand.ref].tree

\* The callback calls Compose(*operands).
ConstructCompose(operands) ==
    /\ Len(built.objects) < MaxBuilt /\ built.raised = "none"
    /\ LET args == [i \in DOMAIN operands |-> operands[i].action]
           tree == Node([i \in DOMAIN operands |-> OperandTree(operands[i])])
           new == NewCompose(args)
       IN built' = IF new.raised # "none"
                   THEN [built EXCEPT !.raised = new.raised, !.args = <<tree>>]
                   ELSE [built EXCEPT
                            !.objects = Append(@, [action |-> new.action,
                                                   tree |-> tree])]
    /\ UNCHANGED <<pipeline, goto_objects, responses, generator, yielded, calls,
                   executed, driver, encoded, waited>>

\* The callback catches the ValueError and goes on.
CatchValueError ==
    /\ built.raised # "none"
    /\ built' = [built EXCEPT !.raised = "none", !.args = <<>>]
    /\ UNCHANGED <<pipeline, goto_objects, responses, generator, yielded, calls,
                   executed, driver, encoded, waited>>

\* A callback that nests Composes as examples/spiders/compose.py does.
InitCompose ==
    /\ InitPipeline({}, {TRUE}, {<<>>})
    /\ goto_objects = <<>>
    /\ responses = <<>>
    /\ generator = NoGenerator
    /\ yielded = <<>>
    /\ calls = 0
    /\ executed = NoExecution
    /\ driver = NoDriver
    /\ encoded = NoEncoding
    /\ built = NothingBuilt
    /\ waited = NotWaiting

NextCompose ==
    \/ \E n \in 0..MaxComposeArgs :
          \E operands \in [1..n -> Operands] : ConstructCompose(operands)
    \/ CatchValueError

SpecCompose == InitCompose /\ [][NextCompose]_vars

\* ------------------------------------------------- waiting, local drivers
\* A value of the waitOptions dict: None, a number or a string.
WaitValue(type, n, s) == [type |-> type, n |-> n, s |-> s]
NoValue == WaitValue("none", 0, "")
StrValue(s) == WaitValue("str", 0, s)
IntValue(n) == WaitValue("int", n, "")

\* Python truth: None, 0 and "" are false.
Truthy(v) == (v.type = "int" /\ v.n # 0) \/ (v.type = "str" /\ v.s # "")

\* The strings for which startswith("//") holds.
XPathStrings == {"//a", "//b"}

WaitOptions ==
    [selector : {NoValue, StrValue(""), StrValue("#a")},
     xpath : {NoValue, StrValue("//a")},
     timeout : {NoValue, IntValue(0), IntValue(500)},
     selectorOrTimeout : {NoValue, IntValue(0), IntValue(900), StrValue(""),
                          StrValue("#b"), StrValue("//b")},
     options : {"none", "visible"}]

NoWait == [raised |-> "none", call |-> "none", prefix |-> "", arg |-> NoValue,
           options |-> "none"]

\* wait_with_options of PlaywrightBrowserManager and PyppeteerBrowserManager:
\* the error it raises, or the one call it awaits with its argument.
wait_with_options(backend, wait_options) ==
    LET selector_or_timeout == wait_options.selectorOrTimeout
        given == Truthy(selector_or_timeout)
        timeout == IF given /\ selector_or_timeout.type = "int"
                   THEN selector_or_timeout ELSE wait_options.timeout
        xpath == IF given /\ selector_or_timeout.type = "str"
                    /\ selector_or_timeout.s \in XPathStrings
                 THEN selector_or_timeout ELSE wait_options.xpath
        selector == IF given /\ selector_or_timeout.type = "str"
                       /\ selector_or_timeout.s \notin XPathStrings
                    THEN selector_or_timeout ELSE wait_options.selector
        items == <<selector, xpath, timeout>>
    IN IF Cardinality({i \in 1..3 : Truthy(items[i])}) > 1
       THEN [NoWait EXCEPT !.raised = "ValueError"]
       ELSE IF Truthy(selector)
       THEN [NoWait EXCEPT
                !.call = IF backend = "playwright" THEN "wait_for_selector"
                         ELSE "waitForSelector",
                !.arg = selector, !.options = wait_options.options]
       ELSE IF Truthy(xpath)
       THEN [NoWait EXCEPT
                !.call = IF backend = "playwright" THEN "wait_for_selector"
                         ELSE "waitForXPath",
                !.prefix = IF backend = "playwright" THEN "xpath=" ELSE "",
                !.arg = xpath, !.options = wait_options.options]
       ELSE IF Truthy(timeout)
       THEN [NoWait EXCEPT !.call = "sleep", !.arg = timeout]
       ELSE NoWait

\* An action of a local driver reaches its wait: it reads the action's
\* waitOptions and awaits wait_with_options.
WaitWithOptions(backend, wait_options) ==
    /\ waited.backend = "none"
    /\ waited' = [backend |-> backend, wait_options |-> wait_options,
                  done |-> wait_with_options(backend, wait_options)]
    /\ UNCHANGED <<pipeline, goto_objects, responses, generator, yielded, calls,
                   executed, driver, encoded, built>>

\* The action ends, with the page's content or with the error.
WaitReturns ==
    /\ waited.backend # "none"
    /\ waited' = NotWaiting
    /\ UNCHANGED <<pipeline, goto_objects, responses, generator, yielded, calls,
                   executed, driver, encoded, built>>

InitWait ==
    /\ InitPipeline({}, {TRUE}, {<<>>})
    /\ goto_objects = <<>>
    /\ responses = <<>>
    /\ generator = NoGenerator
    /\ yielded = <<>>
    /\ calls = 0
    /\ executed = NoExecution
    /\ driver = NoDriver
    /\ encoded = NoEncoding
    /\ built = NothingBuilt
    /\ waited = NotWaiting

NextWait ==
    \/ \E backend \in {"playwright", "pyppeteer"}, wait_options \in WaitOptions :
          WaitWithOptions(backend, wait_options)
    \/ WaitReturns

SpecWait == InitWait /\ [][NextWait]_vars

\* =================================================================== claims
Original == session.current
SubRequests == Len(session.sent) - 1

\* The solve result lists a captcha, solving is on, and the selector table
\* has entries but none for this URL: _submit_recaptcha raises IgnoreRequest.
UnsubmittableCaptcha ==
    /\ session.captchas
    /\ settings.recaptcha_solving
    /\ settings.submit_selectors # <<>>
    /\ FirstMatch(settings.submit_selectors, 1) = 0

\* The spider's current request is answered and went through the recaptcha
\* sub-protocol with successful replies only.
CaptchaHandled ==
    /\ pc = "idle" /\ steps > 0 /\ delivered > 0
    /\ Original.action.kind \notin ExemptKinds
    /\ ~Original.meta.dont_recaptcha
    /\ session.errors = 0

OneTypedResponse ==
    /\ delivered = 1
    /\ IsPuppeteerResponse(last)
    /\ last.cls = _get_response_class(Original.action)

\* C1 (as stated): every non-exempt request without dont_recaptcha whose
\* sub-requests all succeed yields exactly one response for the caller, of the
\* class that belongs to the original action.
C1_OneResponsePerRequest == CaptchaHandled => OneTypedResponse

\* C1 (amended): the same, unless the solve result lists a captcha that no
\* entry of a non-empty selector table matches (then IgnoreRequest is raised).
C1_OneResponseUnlessUnsubmittable ==
    (CaptchaHandled /\ ~UnsubmittableCaptcha) => OneTypedResponse

\* C1 witness: solve and submit were both issued for a Har request and the
\* caller got its Har response.
C1_Witness ==
    /\ CaptchaHandled /\ SubRequests = 2
    /\ Original.action.kind = "har"
    /\ last.cls = "PuppeteerHarResponse"

Replay == session.restored
Replayed == Replay.oid # 0

\* The request _restore_context returned is the one now scheduled.
ReplayScheduled ==
    /\ Replayed /\ pc = "scheduled"
    /\ request.cls = "PuppeteerRequest" /\ request.oid = Replay.oid

\* The replay got its 200 and the spider its response.
ReplaySucceeded ==
    /\ Replayed /\ pc = "idle"
    /\ IsPuppeteerResponse(last) /\ last.puppeteer_request.oid = Replay.oid

\* C2: a 422 naming a tracked context is answered by a new request, not by
\* the error: no ids, bound (recoverable), its action the tracked history in
\* issue order followed by the failed action; nothing reaches the spider while
\* the replay is under way; the old context id is no longer tracked and, once
\* the replay succeeds, the new one is tracked with the replayed actions.
C2_ReplayOnSessionInvalid ==
    Replayed =>
        /\ Replay.context_id \notin DOMAIN context_actions
        /\ pc # "idle" => delivered = 0 /\ Replay.history = session.completed
        /\ ReplayScheduled =>
              /\ request.context_id = None /\ request.page_id = None
              /\ request.meta.request_binding
              /\ request.action.kind = "compose"
              /\ request.action.actions = Replay.history \o <<Original.action>>
        /\ ReplaySucceeded =>
              /\ last.context_id # Replay.context_id
              /\ last.context_id \in DOMAIN context_actions
              /\ context_actions[last.context_id].actions
                     = Replay.history \o <<Original.action>>

\* C2 witness: a history of two actions was replayed and the replay succeeded.
C2_Witness == ReplaySucceeded /\ Len(Replay.history) >= 2

\* C3: one page sequence is replayed at most N_RETRY_RESTORING times.
C3_ReplaysBounded == session.replays <= N_RETRY_RESTORING

\* C4: no tracked history is longer than RESTORING_LENGTH.
C4_HistoryBounded ==
    \A c \in DOMAIN context_actions :
        Len(context_actions[c].actions) <= RESTORING_LENGTH

\* C5: a sequence with more than RESTORING_LENGTH completed actions is not
\* replayed.
C5_TooLongNotReplayed == Replayed => Len(Replay.history) <= RESTORING_LENGTH

\* C6: a 422 for the bound first request ends either in a later reply or in
\* the 422 itself after N_RETRY_RESTORING re-issues, never in anything else.
C6_BootstrapRetried ==
    (pc = "idle" /\ delivered > 0 /\ session.boot422 > 0 /\ ~Replayed) =>
        /\ last.cls # "Failure"
        /\ (last.cls = "TextResponse" /\ last.status = UNPROCESSABLE_ENTITY)
               => session.retries = N_RETRY_RESTORING

\* C7: every context id a reply carried is in the registry the next flush reads.
C7_RegistryComplete == audit.observed \subseteq used_contexts

\* C8: while a close-contexts call is outstanding the crawl is running, kept
\* so by DontCloseSpider; hence a closed crawl has seen every close result.
C8_ShutdownDeferred ==
    close_requests # <<>> => crawl = "running" /\ audit.deferred

\* C8 witness: a flush has issued a close request.
C8_Witness == close_requests # <<>> /\ audit.flush_issued # <<>>

\* C9: a flush of a non-empty registry issues one request listing each
\* recorded id once and empties the registry; a flush of an empty registry
\* issues none; without a reply in between, flushes issue at most one request.
C9_FlushBatches ==
    /\ audit.flush_before = {} => audit.flush_issued = <<>>
    /\ audit.flush_before # {} =>
          /\ Len(audit.flush_issued) = 1
          /\ SeqRange(audit.flush_issued[1]) = audit.flush_before
          /\ Len(audit.flush_issued[1]) = Cardinality(audit.flush_before)
    /\ audit.since_reply <= 1
    /\ audit.since_reply = 1 => used_contexts = {}

\* C9 witness: a batch of two contexts was flushed.
C9_Witness == Cardinality(audit.flush_before) >= 2 /\ audit.flush_issued # <<>>

Followed == session.followed

\* The spider's follow request, as follow built it.
FollowScheduled ==
    /\ pc = "scheduled" /\ request.cls = "PuppeteerRequest"
    /\ Followed.cls # "NoDelivery" /\ request = Original

\* C10: follow keeps the response's context id; it keeps the response's page
\* id if the request behind the response had close_page false, and sets none
\* if it had close_page true.  So after a follow with close_page true the next
\* follow has no page id, after one with close_page false the same page id.
C10_FollowIds ==
    FollowScheduled =>
        /\ request.context_id = Followed.context_id
        /\ Followed.puppeteer_request.close_page => request.page_id = None
        /\ ~Followed.puppeteer_request.close_page =>
              /\ request.page_id = Followed.page_id
              /\ Followed.puppeteer_request.page_id # None =>
                    request.page_id = Followed.puppeteer_request.page_id

\* C10 witness: the second follow of a chain whose first follow closed the page.
C10_Witness ==
    /\ FollowScheduled
    /\ Followed.puppeteer_request.context_id # None
    /\ Followed.puppeteer_request.close_page
    /\ request.page_id = None

\* ------------------------------------------------- recaptcha sub-protocol
Sent == session.sent
SentSubmit(i) == Sent[i].action.kind = "click" /\ Sent[i].meta.captcha_submission
SentSolve(i) ==
    Sent[i].action.kind = "recaptcha_solver" /\ Sent[i].meta.captcha_solving

\* The PuppeteerRequest that is scheduled, as such or already wrapped.
Scheduled ==
    IF request.cls = "ActionRequest" THEN request.puppeteer_request ELSE request

\* The spider's current request has its answer.
Answered == pc = "idle" /\ steps > 0 /\ delivered > 0

\* The exchange for the current request ended through the submit Click.
EndedThroughSubmit ==
    /\ Answered /\ session.errors = 0
    /\ Len(Sent) = 3 /\ SentSubmit(3)
    /\ IsPuppeteerResponse(last)

\* C11: when the original request had close_page true and the exchange ended
\* through the submit Click, the response given to the caller has no page id,
\* so that a follow of it opens a fresh page.
C11_DeferredCloseApplied ==
    (EndedThroughSubmit /\ Original.close_page) =>
        /\ last.page_id = None
        /\ Follow(nobj + 1, last, Atom("click", 0), FALSE, NoMeta).page_id = None

\* The current request takes part in the sub-protocol and asked to close.
ClosingOriginal ==
    /\ steps > 0
    /\ Original.close_page
    /\ ~Original.meta.dont_recaptcha
    /\ Original.action.kind \notin {"screenshot", "scroll", "action", "recaptcha_solver"}

\* C12: of the requests sent for an original with close_page true whose
\* captcha is submitted, only the submit Click, the last one, carries
\* close_page; the original and the solve request are sent without it.
C12_CloseOnlyOnce ==
    ClosingOriginal =>
        /\ \A i \in 1..Len(Sent) : Sent[i].close_page => (i = 3 /\ SentSubmit(i))
        /\ Len(Sent) <= 3
        /\ Len(Sent) = 3 => SentSubmit(3) /\ Sent[3].close_page

\* C12 witness: the submit Click of such an exchange was sent and answered.
C12_Witness == ClosingOriginal /\ EndedThroughSubmit /\ Sent[3].close_page

\* The solve reply listed a captcha and no table entry is for this URL.
CaptchaWithoutSelector ==
    /\ Answered /\ session.errors = 0
    /\ session.captchas
    /\ FirstMatch(settings.submit_selectors, 1) = 0

\* C13 (as stated): whatever the selector table, a captcha in the solve
\* result that no selector matches ends the request in IgnoreRequest.
C13_UnsubmittedIsFatal ==
    CaptchaWithoutSelector => last = Failure("IgnoreRequest")

\* C13 (amended): that holds when solving is enabled and the table has
\* entries; with an empty table, or solving disabled, the caller gets the
\* stored original response.
C13_UnsubmittedIsFatalUnlessEmpty ==
    CaptchaWithoutSelector =>
        IF settings.recaptcha_solving /\ settings.submit_selectors # <<>>
        THEN last = Failure("IgnoreRequest") /\ Len(Sent) = 2
        ELSE OneTypedResponse /\ Len(Sent) = 2
             /\ last.puppeteer_request.oid = Original.oid

\* C13 witness: IgnoreRequest reached the errback under a non-empty table.
C13_Witness ==
    /\ CaptchaWithoutSelector /\ last = Failure("IgnoreRequest")
    /\ Len(settings.submit_selectors) >= 1

NeverTriggers ==
    \/ Original.action.kind \in {"screenshot", "scroll", "action", "recaptcha_solver"}
    \/ Original.meta.dont_recaptcha

\* The service answered the current request itself with a typed response.
TypedReply == steps > 0 /\ IsPuppeteerResponse(session.typed)

\* The solve request for the current request is scheduled or was sent.
SolveInjected ==
    \/ Len(Sent) >= 2 /\ SentSolve(2)
    \/ /\ pc = "scheduled" /\ Len(Sent) = 1
       /\ Scheduled.action.kind = "recaptcha_solver" /\ Scheduled.meta.captcha_solving

\* C14: a solve request is injected for the response to a request exactly
\* when its action is not Screenshot, Scroll, CustomJsAction or
\* RecaptchaSolver and it did not set dont_recaptcha; otherwise the caller
\* gets the service's response as it is and nothing else is sent.
C14_TriggerCondition ==
    /\ (steps > 0 /\ Len(Sent) >= 2) => ~NeverTriggers /\ TypedReply
    /\ (TypedReply /\ ~NeverTriggers) => SolveInjected
    /\ (TypedReply /\ NeverTriggers) =>
          /\ Answered /\ delivered = 1 /\ Len(Sent) = 1
          /\ last = session.typed

\* C14 witness: a Screenshot without dont_recaptcha came back untouched.
C14_Witness ==
    /\ TypedReply /\ Answered
    /\ Original.action.kind = "screenshot" /\ ~Original.meta.dont_recaptcha
    /\ last.cls = "PuppeteerScreenshotResponse"

NothingToSubmit == ~settings.recaptcha_solving \/ ~session.captchas

\* C15: with solving disabled, or no captcha in the solve result, no submit
\* Click is sent; the stored original response is returned on the solve reply.
C15_NoSubmitWithoutSolve ==
    (steps > 0 /\ NothingToSubmit) =>
        /\ \A i \in 1..Len(Sent) : ~SentSubmit(i)
        /\ ~(pc = "scheduled" /\ Scheduled.meta.captcha_submission)
        /\ (Answered /\ session.errors = 0 /\ ~NeverTriggers) =>
              /\ Len(Sent) = 2 /\ SentSolve(2)
              /\ OneTypedResponse
              /\ last.puppeteer_request.oid = Original.oid
              /\ last.context_id = session.typed.context_id

\* C15 witness: solving is disabled, the solve result lists a captcha and an
\* entry matches the URL; the caller has the original response.
C15_Witness ==
    /\ Answered /\ session.errors = 0 /\ ~NeverTriggers
    /\ ~settings.recaptcha_solving /\ session.captchas
    /\ FirstMatch(settings.submit_selectors, 1) # 0
    /\ OneTypedResponse

\* C18: the response delivered for a step that was recovered by a replay has
\* the class that belongs to the action of that step.
C18_RestoreKeepsShape ==
    ReplaySucceeded => last.cls = _get_response_class(Original.action)

\* ---------------------------------------------------- follow, follow_all
FromFollowAll == {k \in 1..Len(yielded) : yielded[k].via = "follow_all"}
Iterating == generator.state \in {"running", "finished", "ValueError"}

C17_RelativeResolved ==
    \A k \in 1..Len(yielded) :
        (HasNavigate(yielded[k].item) /\ ~yielded[k].given.absolute) =>
            yielded[k].navigate = urljoin(responses[yielded[k].response],
                                          yielded[k].given)

\* -------------------------------------------------------- response typing
Succeeded == executed.backend # "none" /\ executed.outcome.kind = "response"

\* classifyResponse as the specification tabulates it
ClassifyResponse(kind) ==
    CASE kind \in {"goto", "back", "forward", "click", "scroll", "fill_form"}
            -> "PuppeteerHtmlResponse"
      [] kind = "screenshot" -> "PuppeteerScreenshotResponse"
      [] kind = "har" -> "PuppeteerHarResponse"
      [] kind = "recaptcha_solver" -> "PuppeteerRecaptchaSolverResponse"
      [] kind \in {"action", "compose", "extension"} -> "PuppeteerJsonResponse"

\* C19: whichever browser manager executes an action successfully, the class
\* of the response is the one _get_response_class gives for the action.
C19_BackendIndependentTyping ==
    Succeeded => executed.outcome.cls = _get_response_class(executed.action)

C21_HistoryDroppedOnClose ==
    \A context_id \in audit.closed : context_id \notin DOMAIN context_actions

\* The spider's current request asked for recover_context although it
\* carries a context id or a page id.
RecoverWithIds ==
    /\ Original.cls = "PuppeteerRequest"
    /\ Original.meta.recover_context
    /\ (Original.context_id # None \/ Original.page_id # None)

\* C22: a request marked recover_context that already carries a context id
\* or a page id is rejected by the restore middleware's process_request: it
\* is never sent to the service and is not bound for tracking.
C22_RecoverWithIdsRejected ==
    RecoverWithIds =>
        /\ session.sent = <<>>
        /\ pc # "downloading"
        /\ request.cls = "ActionRequest" =>
               ~request.puppeteer_request.meta.request_binding

\* The step is the process_response chain run on a reply.
Replied == pc = "downloading" /\ pc' # "downloading"

\* The reply of that step was an error; its status is not 422, or the
\* context id of its body is not tracked.
ErrorOutsideRestore ==
    /\ Replied
    /\ session'.reply.status # HTTP_OK
    /\ \/ session'.reply.status # UNPROCESSABLE_ENTITY
       \/ session'.reply.contextId \notin DOMAIN context_actions

\* The chain handed the reply on as it came: no new request, no exception,
\* and the history table is what it was.
Propagated ==
    /\ pc' = "idle"
    /\ last' = session'.reply
    /\ context_actions' = context_actions

C28_ErrorReturnedUnchanged ==
    [][(Replied /\ session'.reply.json /\ session'.reply.status # HTTP_OK) =>
           /\ pc' = "idle"
           /\ ~IsPuppeteerResponse(last')
           /\ last' = session'.reply]_vars

\* C28 witness: the spider holds a 500 reply that names the context.
C28_Witness ==
    /\ pc = "idle" /\ delivered = 1
    /\ last.cls = "TextResponse" /\ last.json /\ last.status # HTTP_OK
    /\ last.contextId # None
    /\ last = session.reply

\* The download of a CloseContextRequest ended in a response that is not
\* 200 or in a Failure, and its result handler ran.
CloseFailed ==
    /\ close_requests # <<>>
    /\ close_requests' = Tail(close_requests)
    /\ audit'.close_result \in {"500", "Failure"}

\* C29: when a close request fails its handler only logs: nothing reaches the
\* spider, the contexts are not recorded again and the crawl's state is left
\* as it is, so that the next idle event may close the spider.
C29_CloseFailureOnlyLogged ==
    [][CloseFailed =>
           /\ used_contexts' = used_contexts
           /\ mw_used_contexts' = mw_used_contexts
           /\ crawl' = crawl
           /\ UNCHANGED <<pc, request, last, delivered>>]_vars

\* C29 witness: the only close request failed and the next idle event
\* closed the spider.
C29_Witness ==
    /\ crawl = "closed"
    /\ audit.close_result \in {"500", "Failure"}
    /\ audit.closed # {}
    /\ used_contexts = {}

\* The local browser manager's last request was a PuppeteerRequest.
LocalRequest == driver # NoDriver /\ driver.request.cls = "PuppeteerRequest"
LocalResponded == LocalRequest /\ driver.outcome.kind = "response"

\* C24: a request that names a context of the local context map and no page
\* is answered from a new page of that context: the response's context id is
\* the request's and no context was created.
C24_LocalKeepsContext ==
    (/\ LocalResponded
     /\ driver.request.context_id \in driver.before.contexts
     /\ driver.request.page_id = None)
    => /\ driver.outcome.context_id = driver.request.context_id
       /\ driver.contexts = driver.before.contexts

\* C25: once a request with close_page true is answered, its page is no
\* longer in the page map and the page's context still is in the context map.
C25_ClosePageHonoured ==
    (LocalResponded /\ driver.request.close_page)
    => /\ driver.outcome.page_id \notin DOMAIN driver.pages
       /\ driver.outcome.context_id \in driver.contexts

\* The request's id pair is missing (an id is None) or unseen (an id is not
\* a key of the local maps).
MissingIds ==
    driver.request.context_id = None \/ driver.request.page_id = None
UnseenIds ==
    \/ driver.request.context_id \notin driver.before.contexts
    \/ driver.request.page_id \notin driver.before.pages

\* C26: a request for an action both drivers implement, whose id pair is
\* missing or unseen, is answered, from a context and a page created for it,
\* and the response carries their ids.
C26_LocalResolutionNeverFails ==
    (/\ LocalRequest
     /\ driver.request.action.kind \in {"goto", "screenshot", "fill_form"}
     /\ (MissingIds \/ UnseenIds))
    => /\ driver.outcome.kind = "response"
       /\ driver.outcome.context_id \in driver.contexts \ driver.before.contexts
       /\ driver.outcome.page_id \in DOMAIN driver.pages \ driver.before.pages
       /\ driver.pages[driver.outcome.page_id] = driver.outcome.context_id

\* The driver has no implementation of the request's action.
UnsupportedLocally ==
    \/ driver.request.action.kind \in {"action", "recaptcha_solver", "har"}
    \/ driver.request.action.kind = "compose" /\ driver.backend = "pyppeteer"

\* C27: a request for an action the local driver does not implement ends in
\* an exception for that request, and neither a context nor a page was
\* allocated for it.
C27_UnsupportedFailsCleanly ==
    (LocalRequest /\ UnsupportedLocally)
    => /\ driver.outcome.kind = "raise"
       /\ driver.contexts = driver.before.contexts
       /\ DOMAIN driver.pages = driver.before.pages

Serialized == encoded # NoEncoding /\ encoded.body # NoBody

\* The JSON objects of a body: the top-level one and the body of each step.
BodyObjects ==
    {encoded.body.json}
    \cup {encoded.body.steps[i].body : i \in 1..Len(encoded.body.steps)}

\* C30: the body of an action with JSON content type has no key whose value
\* is null, in the top-level object and in the body of each step of a
\* Compose; a CustomJsAction is sent as its script, with content type
\* application/javascript.
C30_NullOmission ==
    Serialized =>
        /\ encoded.action.content_type = "application/json" =>
              /\ encoded.body.content_type = "application/json"
              /\ \A object \in BodyObjects :
                    \A k \in DOMAIN object.members : object.members[k] # "null"
        /\ encoded.action.endpoint = "action" =>
              /\ encoded.body.content_type = "application/javascript"
              /\ encoded.body.json = JsonString

\* C31: no operation of the library changes a field of an action once it is
\* constructed: every GoTo object a callback holds has the url its caller
\* constructed it with, whatever was followed with it.
C31_ActionsImmutable ==
    \A g \in DOMAIN goto_objects : goto_objects[g].url = goto_objects[g].given

\* The atomic actions of the arguments as written, in order, every nested
\* Compose replaced by its members.
RECURSIVE Leaves(_)
Leaves(tree) ==
    IF tree.leaf THEN <<tree.action>>
    ELSE IF tree.children = <<>> THEN <<>>
    ELSE Leaves(Head(tree.children))
         \o Leaves([tree EXCEPT !.children = Tail(@)])

\* The deepest nesting of Composes in the arguments as written.
RECURSIVE Depth(_)
Depth(tree) ==
    IF tree.leaf THEN 0
    ELSE IF tree.children = <<>> THEN 1
    ELSE LET d == Depth(Head(tree.children)) + 1
             rest == Depth([tree EXCEPT !.children = Tail(@)])
         IN IF d > rest THEN d ELSE rest

\* C32: the action list of a Compose is the in-order concatenation of its
\* members with every nested Compose replaced by its own members; it equals,
\* in list and in payload, the Compose of those members written flat, and no
\* member is a Compose.
C32_ComposeFlattens ==
    \A i \in DOMAIN built.objects :
        LET object == built.objects[i]
            flat == Compose(Leaves(object.tree))
        IN /\ object.action.actions = Leaves(object.tree)
           /\ object.action = flat
           /\ ComposePayload(object.action) = ComposePayload(flat)
           /\ \A k \in DOMAIN object.action.actions :
                 object.action.actions[k].kind # "compose"

\* C32 witness: Compose(Compose(a, b), c) was constructed.
C32_Witness ==
    \E i \in DOMAIN built.objects :
        /\ Depth(built.objects[i].tree) >= 2
        /\ Len(built.objects[i].action.actions) >= 3

\* C33: Compose of zero actions raises ValueError and leaves no object: no
\* Compose that exists has an empty action list, whatever it was constructed
\* from, ValueError is raised for nothing else, and every Compose in the
\* restore middleware's history has at least one action.
C33_EmptyComposeRejected ==
    /\ \A i \in DOMAIN built.objects :
          /\ Leaves(built.objects[i].tree) # <<>>
          /\ built.objects[i].action.actions # <<>>
    /\ built.raised # "none" =>
          /\ built.raised = "ValueError"
          /\ Leaves(built.args[1]) = <<>>
    /\ \A context_id \in DOMAIN context_actions :
          context_actions[context_id].actions # <<>>

\* C33 witness: Compose() was called, after a Compose had been constructed.
C33_Witness ==
    /\ built.raised = "ValueError"
    /\ built.args[1].children = <<>>
    /\ built.objects # <<>>

Exchanges == session.exchanges

\* GoTo, then follow with Click, then follow with Screenshot, each answered
\* 200; close_page is true for the Screenshot only.
NavigateClickScreenshot ==
    /\ pc = "idle" /\ Len(Exchanges) = 3
    /\ Exchanges[1].kind = "goto" /\ Exchanges[2].kind = "click"
    /\ Exchanges[3].kind = "screenshot"
    /\ \A i \in 1..3 : Exchanges[i].response.puppeteer_request.close_page <=> i = 3

\* C34: on the service pipeline without the other middlewares that sequence
\* yields an Html, an Html and a Screenshot response in one context; Click
\* and Screenshot are sent with the contextId and pageId of the response
\* before; only the Screenshot is sent with closePage=1; and only a follow on
\* the Screenshot response makes a request without a page id.
C34_NavigateClickScreenshot ==
    NavigateClickScreenshot =>
        /\ Exchanges[1].response.cls = "PuppeteerHtmlResponse"
        /\ Exchanges[2].response.cls = "PuppeteerHtmlResponse"
        /\ Exchanges[3].response.cls = "PuppeteerScreenshotResponse"
        /\ \A i \in 2..3 :
              /\ Exchanges[i].service_params.contextId
                     = Exchanges[i - 1].response.context_id
              /\ Exchanges[i].service_params.pageId
                     = Exchanges[i - 1].response.page_id
              /\ Exchanges[i].response.context_id
                     = Exchanges[1].response.context_id
        /\ Exchanges[1].service_params.contextId = Absent
        /\ Exchanges[1].service_params.pageId = Absent
        /\ \A i \in 1..3 : Exchanges[i].service_params.closePage = 1 <=> i = 3
        /\ \A i \in 1..3 :
              Follow(0, Exchanges[i].response, Atom("click", 0), FALSE, NoMeta).page_id
                  = None <=> i = 3

\* C34 witness: the three requests were answered.
C34_Witness ==
    /\ NavigateClickScreenshot
    /\ last.cls = "PuppeteerScreenshotResponse"
    /\ last.page_id # None

\* The caller has the response to an original request whose close_page the
\* recaptcha middleware's process_request cleared.
DeferredCloseAnswered ==
    /\ Answered /\ IsPuppeteerResponse(last)
    /\ Original.close_page /\ ~Original.meta.dont_recaptcha

\* The service was asked to close the page: a request sent with close_page,
\* or a solve sent with close_on_empty whose reply listed no captcha.
CloseAsked ==
    \E i \in 1..Len(Sent) :
        \/ Sent[i].close_page
        \/ /\ SentSolve(i) /\ Sent[i].action.close_on_empty
           /\ ~session.captchas /\ (i < Len(Sent) \/ session.errors = 0)

\* C35: when the caller receives the response to an original request that
\* had close_page true and went through the recaptcha middleware, the
\* service has been asked to close the page, on every path.
C35_DeferredCloseNeverLost == DeferredCloseAnswered => CloseAsked

\* C36: when the caller has the response or the error for its request, no
\* captcha exchange is in progress, and _page_responses has no entry and
\* _page_closing does not hold the original request; both are empty.
C36_BookkeepingCleaned ==
    Answered =>
        /\ Original.oid \notin page_closing
        /\ \A p \in DOMAIN page_responses :
              page_responses[p].puppeteer_request.oid # Original.oid
        /\ DOMAIN page_responses = {}
        /\ page_closing = {}

\* The last idle handler flushed the registry and raised DontCloseSpider, and
\* the spider has issued no request since.
FlushDeferred ==
    /\ crawl = "running" /\ pc = "idle"
    /\ audit.deferred /\ audit.since_reply > 0

\* The close request's download has ended and the engine, idle again, sends
\* spider_idle.
NextIdleAfterFlush == FlushDeferred /\ close_requests = <<>> /\ pc' = "idle"

NextIdleCloses ==
    [][NextIdleAfterFlush =>
          /\ used_contexts = {} /\ audit'.flush_before = {}
          /\ close_requests' = <<>> /\ audit'.flush_issued = <<>>
          /\ crawl' = "closed"]_vars

\* C37: after a flush that raised DontCloseSpider, if the spider issues no
\* new request, the close request's download ends and the next spider_idle
\* finds the registry empty, issues no close request and closes the spider:
\* the crawl ends.
C37_ShutdownDeferralFinite ==
    /\ NextIdleCloses
    /\ FlushDeferred ~> (crawl = "closed" \/ pc # "idle")

\* C37 witness: a flush deferred the shutdown and the idle event after it
\* closed the spider without a close request.
C37_Witness ==
    /\ crawl = "closed" /\ audit.since_reply > 0
    /\ audit.closed # {} /\ audit.flush_issued = <<>> /\ ~audit.deferred

\* The wait policies a waitOptions dict specifies.
Policies(wait_options) ==
    {k \in {"selector", "xpath", "timeout", "selectorOrTimeout"} :
        Truthy(wait_options[k])}

\* C38: wait_with_options of the local drivers raises an error and waits for
\* nothing when the waitOptions specify more than one policy among selector,
\* xpath, timeout and selectorOrTimeout; it applies the one policy when one
\* is specified, and waits for nothing when none is.
C38_WaitPolicyExclusive ==
    waited.backend # "none" =>
        LET specified == Policies(waited.wait_options)
        IN /\ Cardinality(specified) > 1 =>
                 waited.done.raised = "ValueError" /\ waited.done.call = "none"
           /\ Cardinality(specified) = 1 =>
                 /\ waited.done.raised = "none" /\ waited.done.call # "none"
                 /\ \A k \in specified : waited.done.arg = waited.wait_options[k]
           /\ Cardinality(specified) = 0 => waited.done = NoWait
====
